---- MODULE Spec2Model ----
(***************************************************************************)
(* aywson: lossless edits of JSONC text.  A document is a sequence of      *)
(* one-character strings; offsets are 0-based as in the TypeScript source. *)
(* The operations of src/index.ts are operators over such texts, and the   *)
(* state machine applies one public operation to the current document.     *)
(***************************************************************************)
EXTENDS Integers, Sequences, FiniteSets, TLC

\* ===========================================================================
\* JavaScript string primitives
\* ===========================================================================

\* json[i]: the character at 0-based offset i, "" (undefined) out of range
Ch(json, i) == IF i >= 0 /\ i < Len(json) THEN json[i + 1] ELSE ""

\* json.slice(a, b) for 0 <= a, b
Slice(json, a, b) ==
    LET e == IF b > Len(json) THEN Len(json) ELSE b
    IN  IF a >= e THEN <<>> ELSE SubSeq(json, a + 1, e)

\* json.slice(a)
SliceFrom(json, a) == Slice(json, a, Len(json))

\* the characters String.prototype.trim removes (those a document can hold)
WhiteSpace == {" ", "\t", "\n", "\r"}

RECURSIVE trimStart(_)
trimStart(s) ==
    IF s # <<>> /\ Head(s) \in WhiteSpace THEN trimStart(Tail(s)) ELSE s

RECURSIVE trimEnd(_)
trimEnd(s) ==
    IF s # <<>> /\ s[Len(s)] \in WhiteSpace
    THEN trimEnd(SubSeq(s, 1, Len(s) - 1)) ELSE s

trim(s) == trimEnd(trimStart(s))

\* s.startsWith(p)
startsWith(s, p) == Len(s) >= Len(p) /\ SubSeq(s, 1, Len(p)) = p

\* s.endsWith(p)
endsWith(s, p) ==
    Len(s) >= Len(p) /\ SubSeq(s, Len(s) - Len(p) + 1, Len(s)) = p

\* s.includes(c) for a single character c
includes(s, c) == \E i \in 1..Len(s) : s[i] = c

\* s.lastIndexOf(c) for a single character c, -1 when absent
lastIndexOf(s, c) ==
    IF includes(s, c)
    THEN (CHOOSE i \in 1..Len(s) :
            s[i] = c /\ \A j \in (i + 1)..Len(s) : s[j] # c) - 1
    ELSE -1

\* whether the text q occurs in s as a contiguous run
Contains(s, q) ==
    \E i \in 0..(Len(s) - Len(q)) : SubSeq(s, i + 1, i + Len(q)) = q

\* the number of occurrences of q in s
Occurrences(s, q) ==
    Cardinality({i \in 0..(Len(s) - Len(q)) : SubSeq(s, i + 1, i + Len(q)) = q})

\* ===========================================================================
\* jsonc-parser: scanner and parseTree
\* ===========================================================================

Digits == {"0", "1", "2", "3", "4", "5", "6", "7", "8", "9"}
Punct == {"{", "}", "[", "]", ":", ","}
LineBreaks == {"\n", "\r"}

\* end of a line comment: the next line break or the end of the text
RECURSIVE LineCommentEnd(_, _)
LineCommentEnd(t, i) ==
    IF i >= Len(t) \/ Ch(t, i) \in LineBreaks THEN i
    ELSE LineCommentEnd(t, i + 1)

\* offset after the closing */ of a block comment, -1 when it never closes
RECURSIVE BlockCommentEnd(_, _)
BlockCommentEnd(t, i) ==
    IF i + 1 >= Len(t) THEN -1
    ELSE IF Ch(t, i) = "*" /\ Ch(t, i + 1) = "/" THEN i + 2
    ELSE BlockCommentEnd(t, i + 1)

\* scanNext's skipping: white space, comments, and unknown characters (the
\* latter and an unclosed comment are errors).  p: offset of the next token.
RECURSIVE SkipTrivia(_, _, _)
SkipBlock(t, e, err) ==
    IF e < 0 THEN [p |-> Len(t), err |-> TRUE] ELSE SkipTrivia(t, e, err)

SkipTrivia(t, i, err) ==
    IF i >= Len(t) THEN [p |-> Len(t), err |-> err]
    ELSE IF Ch(t, i) \in WhiteSpace THEN SkipTrivia(t, i + 1, err)
    ELSE IF Ch(t, i) = "/" /\ Ch(t, i + 1) = "/"
         THEN SkipTrivia(t, LineCommentEnd(t, i + 2), err)
    ELSE IF Ch(t, i) = "/" /\ Ch(t, i + 1) = "*"
         THEN SkipBlock(t, BlockCommentEnd(t, i + 2), err)
    ELSE IF Ch(t, i) \in Punct \cup Digits \cup {"\""} THEN [p |-> i, err |-> err]
    ELSE SkipTrivia(t, i + 1, TRUE)

\* offset of the closing quote of a string whose content starts at i;
\* a line break or the end of the text ends it unterminated
RECURSIVE StringClose(_, _)
StringClose(t, i) ==
    IF i >= Len(t) \/ Ch(t, i) \in LineBreaks \/ Ch(t, i) = "\"" THEN i
    ELSE StringClose(t, i + 1)

\* offset after the digits of a number starting at i (a leading 0 stands alone)
RECURSIVE DigitsEnd(_, _)
DigitsEnd(t, i) == IF Ch(t, i) \in Digits THEN DigitsEnd(t, i + 1) ELSE i

NumberEnd(t, i) == IF Ch(t, i) = "0" THEN i + 1 ELSE DigitsEnd(t, i)

\* a token: kind k, span [s, e), scan error err
Token(k, s, e, err) == [k |-> k, s |-> s, e |-> e, err |-> err]

\* a string token that opened at p and whose scan stopped at q
StringToken(t, p, q, err) ==
    IF Ch(t, q) = "\"" THEN Token("str", p, q + 1, err) ELSE Token("str", p, q, TRUE)

\* the token at offset p, where the skipping stopped
TokenAt(t, p, err) ==
    IF p >= Len(t) THEN Token("eof", p, p, err)
    ELSE IF Ch(t, p) \in Punct THEN Token(Ch(t, p), p, p + 1, err)
    ELSE IF Ch(t, p) = "\"" THEN StringToken(t, p, StringClose(t, p + 1), err)
    ELSE IF Slice(t, p, p + 4) = <<"n", "u", "l", "l">> /\ Ch(t, p + 4) \notin Digits
    THEN Token("null", p, p + 4, err)
    ELSE Token("num", p, NumberEnd(t, p), err)

AfterTrivia(t, sk) == TokenAt(t, sk.p, sk.err)

\* the next token from raw offset i
Tok(t, i) == AfterTrivia(t, SkipTrivia(t, i, FALSE))

\* handleError's resynchronisation: the offset of the first token from i
\* whose kind is in stop (or the end of the text)
RECURSIVE SkipUntil(_, _, _)
SkipUntilAt(t, tk, stop) ==
    IF tk.k = "eof" \/ tk.k \in stop THEN tk.s ELSE SkipUntil(t, tk.e, stop)

SkipUntil(t, i, stop) == SkipUntilAt(t, Tok(t, i), stop)

NoNode == [type |-> "none", offset |-> 0, length |-> 0, value |-> <<>>, kids |-> <<>>]

MkNode(type, offset, length, value, kids) ==
    [type |-> type, offset |-> offset, length |-> length, value |-> value, kids |-> kids]

\* the text of a string token without its quotes
StringValue(t, tk) ==
    Slice(t, tk.s + 1, IF Ch(t, tk.e - 1) = "\"" /\ tk.e - 1 > tk.s THEN tk.e - 1 ELSE tk.e)

\* parseValue / parseObject / parseArray / parseProperty of jsonc-parser's
\* visit, building parseTree's nodes.  A parse result: ok (a value was
\* parsed), the node, pos (raw offset after what was consumed), err (an error
\* other than a trailing comma was reported), tc (a trailing comma was seen).
Parsed(ok, node, pos, err, tc) ==
    [ok |-> ok, node |-> node, pos |-> pos, err |-> err, tc |-> tc]

RECURSIVE ParseValue(_, _)
RECURSIVE ParseMembers(_, _, _, _, _, _)
RECURSIVE ParseElements(_, _, _, _, _, _)
RECURSIVE ParseProperty(_, _)

\* a property that ends without a value, where the resynchronisation stopped
IncompleteProperty(t, tk, stop) ==
    Parsed(TRUE,
           MkNode("property", tk.s, stop - tk.s, <<>>,
                  <<MkNode("string", tk.s, tk.e - tk.s, StringValue(t, tk), <<>>)>>),
           stop, TRUE, FALSE)

PropertyWithValue(t, tk, c, v) ==
    IF v.ok
    THEN Parsed(TRUE,
                MkNode("property", tk.s, (v.node.offset + v.node.length) - tk.s, <<>>,
                       <<MkNode("string", tk.s, tk.e - tk.s, StringValue(t, tk), <<>>),
                         v.node>>),
                v.pos, tk.err \/ c.err \/ v.err, v.tc)
    ELSE IncompleteProperty(t, tk, SkipUntil(t, c.e, {"}", ","}))

PropertyAfterKey(t, tk, c) ==
    IF c.k = ":" THEN PropertyWithValue(t, tk, c, ParseValue(t, c.e))
    ELSE IncompleteProperty(t, tk, SkipUntil(t, tk.e, {"}", ","}))

\* parseProperty at a string token tk
ParseProperty(t, tk) == PropertyAfterKey(t, tk, Tok(t, tk.e))

\* the end of a loop of parseObject or parseArray: what it collected
Members(kids, close, err, tc) == [kids |-> kids, close |-> close, err |-> err, tc |-> tc]

MembersWith(t, p, kids, err, tc) ==
    ParseMembers(t, p.pos, TRUE, Append(kids, p.node), err \/ p.err, tc \/ p.tc)

\* one round of parseObject's loop: tk is the token the round starts at and
\* ac the token after the optional comma
MembersRound(t, tk, ac, needsComma, kids, err, tc) ==
    IF ac.k = "str"
    THEN MembersWith(t, ParseProperty(t, ac), kids,
                     err \/ tk.err \/ ac.err \/ (tk.k = "," /\ ~needsComma)
                         \/ (tk.k # "," /\ needsComma), tc)
    ELSE ParseMembers(t, SkipUntil(t, ac.s, {"}", ","}), TRUE, kids,
                      err \/ tk.err \/ ac.err \/ (tk.k # "," /\ needsComma)
                          \/ ~(tk.k = "," /\ needsComma /\ ac.k = "}"),
                      tc \/ (tk.k = "," /\ needsComma /\ ac.k = "}"))

MembersAt(t, tk, needsComma, kids, err, tc) ==
    IF tk.k = "}" \/ tk.k = "eof"
    THEN Members(kids, tk, err \/ tk.err \/ tk.k = "eof", tc)
    ELSE MembersRound(t, tk, IF tk.k = "," THEN Tok(t, tk.e) ELSE tk, needsComma, kids, err, tc)

\* the loop of parseObject from raw offset i
ParseMembers(t, i, needsComma, kids, err, tc) ==
    MembersAt(t, Tok(t, i), needsComma, kids, err, tc)

ElementsWith(t, tk, ac, v, needsComma, kids, err, tc) ==
    IF v.ok
    THEN ParseElements(t, v.pos, TRUE, Append(kids, v.node),
                       err \/ tk.err \/ ac.err \/ (tk.k = "," /\ ~needsComma)
                           \/ (tk.k # "," /\ needsComma) \/ v.err, tc \/ v.tc)
    ELSE ParseElements(t, SkipUntil(t, ac.s, {"]", ","}), TRUE, kids,
                       err \/ tk.err \/ ac.err \/ (tk.k # "," /\ needsComma)
                           \/ ~(tk.k = "," /\ needsComma /\ ac.k = "]"),
                       tc \/ (tk.k = "," /\ needsComma /\ ac.k = "]"))

ElementsRound(t, tk, ac, needsComma, kids, err, tc) ==
    ElementsWith(t, tk, ac, ParseValue(t, ac.s), needsComma, kids, err, tc)

ElementsAt(t, tk, needsComma, kids, err, tc) ==
    IF tk.k = "]" \/ tk.k = "eof"
    THEN Members(kids, tk, err \/ tk.err \/ tk.k = "eof", tc)
    ELSE ElementsRound(t, tk, IF tk.k = "," THEN Tok(t, tk.e) ELSE tk, needsComma, kids, err, tc)

\* the loop of parseArray from raw offset i
ParseElements(t, i, needsComma, kids, err, tc) ==
    ElementsAt(t, Tok(t, i), needsComma, kids, err, tc)

\* the object or array node that opened at tk and collected m
Container(type, closer, tk, m) ==
    Parsed(TRUE,
           MkNode(type, tk.s, (IF m.close.k = closer THEN m.close.e ELSE m.close.s) - tk.s,
                  <<>>, m.kids),
           IF m.close.k = closer THEN m.close.e ELSE m.close.s, m.err, m.tc)

ValueAt(t, tk) ==
    CASE tk.k = "{" ->
           Container("object", "}", tk, ParseMembers(t, tk.e, FALSE, <<>>, tk.err, FALSE))
      [] tk.k = "[" ->
           Container("array", "]", tk, ParseElements(t, tk.e, FALSE, <<>>, tk.err, FALSE))
      [] tk.k = "str" ->
           Parsed(TRUE, MkNode("string", tk.s, tk.e - tk.s, StringValue(t, tk), <<>>),
                  tk.e, tk.err, FALSE)
      [] tk.k = "num" ->
           Parsed(TRUE, MkNode("number", tk.s, tk.e - tk.s, Slice(t, tk.s, tk.e), <<>>),
                  tk.e, tk.err, FALSE)
      [] tk.k = "null" ->
           Parsed(TRUE, MkNode("null", tk.s, tk.e - tk.s, <<>>, <<>>), tk.e, tk.err, FALSE)
      [] OTHER -> Parsed(FALSE, NoNode, tk.s, TRUE, FALSE)

ParseValue(t, i) == ValueAt(t, Tok(t, i))

\* the end of the parse: v is the root value and rest the token behind it
DocResult(v, rest) ==
    IF v.ok
    THEN [root |-> v.node, err |-> v.err \/ rest.k # "eof" \/ rest.err, tc |-> v.tc]
    ELSE [root |-> NoNode, err |-> TRUE, tc |-> FALSE]

DocAfter(t, v) == DocResult(v, Tok(t, v.pos))

\* the whole parse: the root (NoNode when there is none) and the error flags
ParseDoc(t) == DocAfter(t, ParseValue(t, 0))

\* parseTree(text): the root node, NoNode for undefined
parseTree(t) == ParseDoc(t).root

\* a syntactically valid JSONC document: comments and trailing commas allowed
ValidJsonc(t) == ~ParseDoc(t).err

\* ===========================================================================
\* jsonc-parser: values, findNodeAtLocation, getNodeValue
\* ===========================================================================

\* A JavaScript value: k is its kind, v its content: the digits of a number,
\* the characters of a string, the elements of an array, and for an object
\* its entries [key, val] in insertion order.  Undefined is the absence marker.
Undefined == [k |-> "undef", v |-> <<>>]
Null == [k |-> "null", v |-> <<>>]
Num(d) == [k |-> "num", v |-> d]
Arr(es) == [k |-> "arr", v |-> es]
Obj(entries) == [k |-> "obj", v |-> entries]
Entry(key, val) == [key |-> key, val |-> val]

\* a path segment: an object key (characters) or an array index
Key(name) == [key |-> name, idx |-> -1]
Idx(n) == [key |-> <<>>, idx |-> n]
IsKey(seg) == seg.idx < 0

\* the own keys of an object value, in order
ObjKeys(o) == [i \in 1..Len(o.v) |-> o.v[i].key]
HasOwn(o, key) == \E i \in 1..Len(o.v) : o.v[i].key = key
OwnValue(o, key) == o.v[CHOOSE i \in 1..Len(o.v) : o.v[i].key = key].val

\* obj[key] = val on a list of entries: overwrite in place, or append
PutEntry(entries, key, val) ==
    IF \E i \in 1..Len(entries) : entries[i].key = key
    THEN [i \in 1..Len(entries) |->
            IF entries[i].key = key THEN Entry(key, val) ELSE entries[i]]
    ELSE Append(entries, Entry(key, val))

\* deep equality of values: object entries compare as a mapping
RECURSIVE DeepEq(_, _)
DeepEq(a, b) ==
    /\ a.k = b.k
    /\ CASE a.k = "arr" ->
              /\ Len(a.v) = Len(b.v)
              /\ \A i \in 1..Len(a.v) : DeepEq(a.v[i], b.v[i])
         [] a.k = "obj" ->
              /\ \A i \in 1..Len(a.v) : HasOwn(b, a.v[i].key)
              /\ \A i \in 1..Len(b.v) : HasOwn(a, b.v[i].key)
              /\ \A i \in 1..Len(a.v) : DeepEq(a.v[i].val, OwnValue(b, a.v[i].key))
         [] OTHER -> a.v = b.v

RECURSIVE getNodeValue(_)
RECURSIVE ObjectEntries(_, _, _)

\* the loop of getNodeValue over an object's property nodes
ObjectEntries(props, i, acc) ==
    IF i > Len(props) THEN acc
    ELSE IF Len(props[i].kids) >= 2
         THEN ObjectEntries(props, i + 1,
                  PutEntry(acc, props[i].kids[1].value, getNodeValue(props[i].kids[2])))
         ELSE ObjectEntries(props, i + 1, acc)

getNodeValue(node) ==
    CASE node.type = "array" ->
           Arr([i \in 1..Len(node.kids) |-> getNodeValue(node.kids[i])])
      [] node.type = "object" -> Obj(ObjectEntries(node.kids, 1, <<>>))
      [] node.type = "string" -> [k |-> "str", v |-> node.value]
      [] node.type = "number" -> Num(node.value)
      [] node.type = "null" -> Null
      [] OTHER -> Undefined
\* the result of a node lookup: the node and node.parent (hasParent is false
\* for the root, whose parent is undefined)
NotFound == [found |-> FALSE, node |-> NoNode, parent |-> NoNode, hasParent |-> FALSE]

Found(node, parent, hasParent) ==
    [found |-> TRUE, node |-> node, parent |-> parent, hasParent |-> hasParent]

\* the properties of an object node that have a value and are named key
PropHits(node, key) ==
    {i \in 1..Len(node.kids) :
        /\ node.kids[i].type = "property"
        /\ Len(node.kids[i].kids) = 2
        /\ node.kids[i].kids[1].value = key}

FirstOf(hits) == IF hits = {} THEN 0 ELSE CHOOSE i \in hits : \A j \in hits : i <= j

\* index (1-based) of the first property of an object node that has a value
\* and is named key; 0 when there is none
PropIndex(node, key) == FirstOf(PropHits(node, key))

RECURSIVE FindFrom(_, _, _, _)
FindInObject(node, i, rest) ==
    IF i = 0 THEN NotFound
    ELSE FindFrom(node.kids[i].kids[2], node.kids[i], TRUE, rest)

FindFrom(node, parent, hasParent, path) ==
    IF path = <<>> THEN Found(node, parent, hasParent)
    ELSE IF IsKey(Head(path))
         THEN IF node.type # "object" THEN NotFound
              ELSE FindInObject(node, PropIndex(node, Head(path).key), Tail(path))
         ELSE IF node.type # "array" \/ Head(path).idx >= Len(node.kids) THEN NotFound
              ELSE FindFrom(node.kids[Head(path).idx + 1], node, TRUE, Tail(path))

\* findNodeAtLocation(root, path)
findNodeAtLocation(root, path) ==
    IF root.type = "none" THEN NotFound ELSE FindFrom(root, NoNode, FALSE, path)

\* ===========================================================================
\* jsonc-parser: modify (setProperty without formatting options), applyEdits
\* ===========================================================================

Quote(chars) == <<"\"">> \o chars \o <<"\"">>

RECURSIVE stringify(_)
RECURSIVE JoinValues(_, _)
RECURSIVE JoinEntries(_, _)

JoinValues(es, i) ==
    IF i > Len(es) THEN <<>>
    ELSE (IF i > 1 THEN <<",">> ELSE <<>>) \o stringify(es[i]) \o JoinValues(es, i + 1)

JoinEntries(es, i) ==
    IF i > Len(es) THEN <<>>
    ELSE (IF i > 1 THEN <<",">> ELSE <<>>) \o Quote(es[i].key) \o <<":">>
         \o stringify(es[i].val) \o JoinEntries(es, i + 1)

\* JSON.stringify(value)
stringify(val) ==
    CASE val.k = "num" -> val.v
      [] val.k = "str" -> Quote(val.v)
      [] val.k = "null" -> <<"n", "u", "l", "l">>
      [] val.k = "arr" -> <<"[">> \o JoinValues(val.v, 1) \o <<"]">>
      [] val.k = "obj" -> <<"{">> \o JoinEntries(val.v, 1) \o <<"}">>
      [] OTHER -> <<>>

NoEdit == [threw |-> FALSE, none |-> TRUE, offset |-> 0, length |-> 0, content |-> <<>>]
Threw == [threw |-> TRUE, none |-> TRUE, offset |-> 0, length |-> 0, content |-> <<>>]
Edit(offset, length, content) ==
    [threw |-> FALSE, none |-> FALSE, offset |-> offset, length |-> length, content |-> content]

\* the loop of setProperty that pops segments until a parent exists, wrapping
\* the value in the containers the popped segments ask for
RECURSIVE PopToParent(_, _, _, _)
PopStep(root, seg, rest, par, value) ==
    IF ~par.found
    THEN PopToParent(root, rest,
             IF IsKey(seg) THEN Obj(<<Entry(seg.key, value)>>) ELSE Arr(<<value>>), seg)
    ELSE [parent |-> par, path |-> rest, value |-> value, last |-> seg]

PopToParent(root, path, value, last) ==
    IF path = <<>> THEN [parent |-> NotFound, path |-> path, value |-> value, last |-> last]
    ELSE PopStep(root, path[Len(path)], SubSeq(path, 1, Len(path) - 1),
                 findNodeAtLocation(root, SubSeq(path, 1, Len(path) - 1)), value)

\* setProperty on an object parent: replace the existing value or insert a
\* new property behind the last one
SetInObject(parent, seg, existing, val) ==
    IF existing.found THEN Edit(existing.node.offset, existing.node.length, val)
    ELSE IF Len(parent.kids) > 0
    THEN Edit(parent.kids[Len(parent.kids)].offset + parent.kids[Len(parent.kids)].length, 0,
              <<",">> \o Quote(seg.key) \o <<":", " ">> \o val)
    ELSE Edit(parent.offset + 1, 0, Quote(seg.key) \o <<":", " ">> \o val)

\* setProperty on an array parent
SetInArray(parent, seg, val) ==
    IF Len(parent.kids) > seg.idx
    THEN Edit(parent.kids[seg.idx + 1].offset, parent.kids[seg.idx + 1].length, val)
    ELSE IF Len(parent.kids) = 0 \/ seg.idx = 0
    THEN Edit(parent.offset + 1, 0, IF Len(parent.kids) = 0 THEN val ELSE val \o <<",">>)
    ELSE Edit(parent.kids[Len(parent.kids)].offset + parent.kids[Len(parent.kids)].length, 0,
              <<",">> \o val)

SetProperty(root, r, val) ==
    IF ~r.parent.found
    THEN IF root.type = "none" THEN Edit(0, 0, val) ELSE Edit(root.offset, root.length, val)
    ELSE IF r.parent.node.type = "object" /\ IsKey(r.last)
    THEN SetInObject(r.parent.node, r.last,
                     findNodeAtLocation(r.parent.node, <<r.last>>), val)
    ELSE IF r.parent.node.type = "array" /\ ~IsKey(r.last)
    THEN SetInArray(r.parent.node, r.last, val)
    ELSE Threw

SetPropertyAt(root, r) == SetProperty(root, r, stringify(r.value))

ModifyTree(root, path, value) ==
    SetPropertyAt(root, PopToParent(root, path, value, Key(<<>>)))

\* jsoncModify(text, path, value, {}) for a value that is not undefined:
\* the single edit, or a throw
jsoncModify(text, path, value) == ModifyTree(parseTree(text), path, value)

\* applyEdits(text, [edit])
applyEdits(text, edit) ==
    IF edit.none THEN text
    ELSE Slice(text, 0, edit.offset) \o edit.content
         \o SliceFrom(text, edit.offset + edit.length)

\* ===========================================================================
\* src/index.ts: shared helpers
\* ===========================================================================

KeysOf(props) == [i \in 1..Len(props) |-> props[i].kids[1].value]

\* getObjectKeys(node): the keys of an object node's properties, in order
getObjectKeys(node) ==
    IF node.type # "object" THEN <<>>
    ELSE KeysOf(SelectSeq(node.kids, LAMBDA c : c.type = "property" /\ Len(c.kids) >= 1))

\* findProperty without its null checks
PropertyOfUnchecked(r) ==
    [found |-> TRUE, node |-> r.node, propertyNode |-> r.parent]

\* findProperty's null checks on the located node and its parent
PropertyOf(r) ==
    IF r.found /\ r.hasParent
    THEN [found |-> TRUE, node |-> r.node, propertyNode |-> r.parent]
    ELSE [found |-> FALSE, node |-> NoNode, propertyNode |-> NoNode]

\* findProperty(json, path): null, or the node and its parent (propertyNode)
findProperty(json, path) == PropertyOf(findNodeAtLocation(parseTree(json), path))

\* while (p > 0 && json[p - 1] !== "\n") p--
RECURSIVE LineStartOf(_, _)
LineStartOf(json, p) ==
    IF p > 0 /\ Ch(json, p - 1) # "\n" THEN LineStartOf(json, p - 1) ELSE p

RangeFrom(json, propertyNode, lineStart) ==
    [lineStart |-> lineStart,
     isSingleLine |-> includes(Slice(json, lineStart, propertyNode.offset), "{")]

\* getPropertyRange(json, propertyNode)
getPropertyRange(json, propertyNode) ==
    RangeFrom(json, propertyNode, LineStartOf(json, propertyNode.offset))

\* while (pos >= 0 && (json[pos] === " " || json[pos] === "\t")) pos--
RECURSIVE SkipBlanksBack(_, _)
SkipBlanksBack(json, pos) ==
    IF pos >= 0 /\ Ch(json, pos) \in {" ", "\t"} THEN SkipBlanksBack(json, pos - 1)
    ELSE pos

\* while (pos >= 0 && json[pos] !== "\n") pos--
RECURSIVE ScanToNewlineBack(_, _)
ScanToNewlineBack(json, pos) ==
    IF pos >= 0 /\ Ch(json, pos) # "\n" THEN ScanToNewlineBack(json, pos - 1)
    ELSE pos

\* the backward search for the opening of a block comment: the largest i
\* with 1 <= i <= from and json[i - 1] = "/" and json[i] = "*", else 0
RECURSIVE BlockOpenBack(_, _)
BlockOpenBack(json, i) ==
    IF i < 1 THEN 0
    ELSE IF Ch(json, i - 1) = "/" /\ Ch(json, i) = "*" THEN i
    ELSE BlockOpenBack(json, i - 1)

AboveNewline(json, p1) ==
    IF p1 >= 0 /\ Ch(json, p1) = "\n"
    THEN SkipBlanksBack(json, IF p1 - 1 >= 0 /\ Ch(json, p1 - 1) = "\r" THEN p1 - 2 ELSE p1 - 1)
    ELSE -1

\* the common head of both backward scanners: the offset of the last
\* non-blank character of the line above the property, -1 when the property
\* is not preceded by a newline or nothing stands before it
PrevLineEnd(json, propertyOffset) ==
    AboveNewline(json, SkipBlanksBack(json, propertyOffset - 1))

Star2 == <<"*", "*">>
Slash2 == <<"/", "/">>

\* the block-comment branch: i is where the opening was found
BlockCommentStart(json, pos, i) ==
    IF i = 0 THEN -1
    ELSE IF startsWith(trim(Slice(json, i + 1, pos - 1)), Star2) THEN -1
    ELSE LineStartOf(json, i - 1)

\* the line-comment branch: line is the trimmed text of the line above
\* the line-comment branch as it would be without the ** test
LineCommentStartAny(lineStart, line) ==
    IF startsWith(line, Slash2) THEN lineStart ELSE -1

LineCommentStart(lineStart, line) ==
    IF startsWith(line, Slash2)
    THEN IF startsWith(trim(SliceFrom(line, 2)), Star2) THEN -1 ELSE lineStart
    ELSE -1

LineAbove(json, pos, lineStart) ==
    LineCommentStart(lineStart, trim(Slice(json, lineStart, pos + 1)))

CommentStartAt(json, pos) ==
    IF pos < 0 THEN -1
    ELSE IF pos >= 1 /\ Ch(json, pos) = "/" /\ Ch(json, pos - 1) = "*"
    THEN BlockCommentStart(json, pos, BlockOpenBack(json, pos - 2))
    ELSE LineAbove(json, pos, ScanToNewlineBack(json, pos) + 1)

\* findAssociatedCommentStart(json, propertyOffset): the start of the comment
\* line to delete with the field, -1 for null
findAssociatedCommentStart(json, propertyOffset) ==
    CommentStartAt(json, PrevLineEnd(json, propertyOffset))

NoComment == [found |-> FALSE, start |-> 0, end |-> 0, content |-> <<>>]

BlockCommentAbove(json, pos, i) ==
    IF i = 0 THEN NoComment
    ELSE [found |-> TRUE, start |-> i - 1, end |-> pos + 1,
          content |-> trim(Slice(json, i + 1, pos - 1))]

LineCommentAbove(pos, lineStart, line) ==
    IF startsWith(line, Slash2)
    THEN [found |-> TRUE, start |-> lineStart, end |-> pos + 1,
          content |-> trim(SliceFrom(line, 2))]
    ELSE NoComment

CommentLineAbove(json, pos, lineStart) ==
    LineCommentAbove(pos, lineStart, trim(Slice(json, lineStart, pos + 1)))

CommentAboveAt(json, pos) ==
    IF pos < 0 THEN NoComment
    ELSE IF pos >= 1 /\ Ch(json, pos) = "/" /\ Ch(json, pos - 1) = "*"
    THEN BlockCommentAbove(json, pos, BlockOpenBack(json, pos - 2))
    ELSE CommentLineAbove(json, pos, ScanToNewlineBack(json, pos) + 1)

\* findCommentAbove(json, propertyOffset)
findCommentAbove(json, propertyOffset) ==
    CommentAboveAt(json, PrevLineEnd(json, propertyOffset))

\* a flattened change: the path and the value (Undefined: delete)
Leaf(path, value) == [path |-> path, value |-> value]

\* flattenChanges(obj, prefix)
RECURSIVE flattenChanges(_, _)
RECURSIVE FlattenFrom(_, _, _)
\* the loop as it would be if the recursion kept the prefix it was given
FlattenFromSamePrefix(entries, i, prefix) ==
    IF i > Len(entries) THEN <<>>
    ELSE (IF entries[i].val.k = "obj"
          THEN flattenChanges(entries[i].val, prefix)
          ELSE <<Leaf(Append(prefix, Key(entries[i].key)), entries[i].val)>>)
         \o FlattenFrom(entries, i + 1, prefix)

FlattenFrom(entries, i, prefix) ==
    IF i > Len(entries) THEN <<>>
    ELSE (IF entries[i].val.k = "obj"
          THEN flattenChanges(entries[i].val, Append(prefix, Key(entries[i].key)))
          ELSE <<Leaf(Append(prefix, Key(entries[i].key)), entries[i].val)>>)
         \o FlattenFrom(entries, i + 1, prefix)

flattenChanges(obj, prefix) == FlattenFrom(obj.v, 1, prefix)

\* the property names every plain object inherits from Object.prototype,
\* which the `in` operator finds
ObjectPrototypeKeys == {
    <<"v","a","l","u","e","O","f">>,
    <<"t","o","S","t","r","i","n","g">>,
    <<"c","o","n","s","t","r","u","c","t","o","r">>,
    <<"h","a","s","O","w","n","P","r","o","p","e","r","t","y">>,
    <<"i","s","P","r","o","t","o","t","y","p","e","O","f">>,
    <<"t","o","L","o","c","a","l","e","S","t","r","i","n","g">>,
    <<"p","r","o","p","e","r","t","y","I","s","E","n","u","m","e","r","a","b","l","e">> }

\* key in changes
KeyIn(key, changes) == HasOwn(changes, key) \/ key \in ObjectPrototypeKeys

\* computeDeletions(currentJson, changes, prefix) on the parsed tree
RECURSIVE DeletionsIn(_, _, _)
RECURSIVE DeletionsFrom(_, _, _, _, _)
\* the loop as it would be if it tested changes[key] === undefined
DeletionsFromUndefined(tree, currentKeys, i, changes, prefix) ==
    IF i > Len(currentKeys) THEN <<>>
    ELSE (IF ~HasOwn(changes, currentKeys[i]) \/ OwnValue(changes, currentKeys[i]).k = "undef"
          THEN <<Leaf(Append(prefix, Key(currentKeys[i])), Undefined)>>
          ELSE IF OwnValue(changes, currentKeys[i]).k = "obj"
          THEN DeletionsIn(tree, OwnValue(changes, currentKeys[i]),
                           Append(prefix, Key(currentKeys[i])))
          ELSE <<>>)
         \o DeletionsFrom(tree, currentKeys, i + 1, changes, prefix)

DeletionsFrom(tree, currentKeys, i, changes, prefix) ==
    IF i > Len(currentKeys) THEN <<>>
    ELSE (IF ~KeyIn(currentKeys[i], changes)
          THEN <<Leaf(Append(prefix, Key(currentKeys[i])), Undefined)>>
          ELSE IF HasOwn(changes, currentKeys[i])
                  /\ OwnValue(changes, currentKeys[i]).k = "obj"
          THEN DeletionsIn(tree, OwnValue(changes, currentKeys[i]),
                           Append(prefix, Key(currentKeys[i])))
          ELSE <<>>)
         \o DeletionsFrom(tree, currentKeys, i + 1, changes, prefix)

DeletionsIn(tree, changes, prefix) ==
    IF tree.type = "none" THEN <<>>
    ELSE DeletionsFrom(tree, getObjectKeys(findNodeAtLocation(tree, prefix).node), 1,
                       changes, prefix)

\* computeDeletions(currentJson, changes, prefix): every recursive call
\* parses the same currentJson
computeDeletions(currentJson, changes, prefix) ==
    DeletionsIn(parseTree(currentJson), changes, prefix)

\* ===========================================================================
\* src/index.ts: path-based operations
\* ===========================================================================

ValueOfFound(r) == IF r.found THEN getNodeValue(r.node) ELSE Undefined

\* get(json, path)
get(json, path) == ValueOfFound(findNodeAtLocation(parseTree(json), path))

\* has(json, path)
has(json, path) == findNodeAtLocation(parseTree(json), path).found

\* the outcome of an operation that may throw: the new text, or threw
Ok(text) == [threw |-> FALSE, text |-> text]
Throws(text) == [threw |-> TRUE, text |-> text]

ApplyOrThrow(json, edits) ==
    IF edits.threw THEN Throws(json) ELSE Ok(applyEdits(json, edits))

\* set(json, path, value)
set(json, path, value) == ApplyOrThrow(json, jsoncModify(json, path, value))

\* the three steps of remove's deleteEnd
\* the first step as it would be without the comma test
AfterCommaKept(json, e) == e

AfterComma(json, e) == IF e < Len(json) /\ Ch(json, e) = "," THEN e + 1 ELSE e

RECURSIVE AfterBlanks(_, _)
AfterBlanks(json, e) ==
    IF e < Len(json) /\ Ch(json, e) \in {" ", "\t"} THEN AfterBlanks(json, e + 1) ELSE e

AfterNewline(json, e) ==
    IF e < Len(json) /\ Ch(json, e) = "\n" THEN e + 1
    ELSE IF e < Len(json) /\ Ch(json, e) = "\r"
         THEN IF e + 1 < Len(json) /\ Ch(json, e + 1) = "\n" THEN e + 2 ELSE e + 1
    ELSE e

\* remove's deleteStart and deleteEnd, from the range and the comment start
RangeWithComment(json, propertyNode, range, commentStart) ==
    [deleteStart |-> IF commentStart # -1 THEN commentStart
                     ELSE IF range.isSingleLine THEN propertyNode.offset
                     ELSE range.lineStart,
     deleteEnd |-> IF ~range.isSingleLine
                   THEN AfterNewline(json, AfterBlanks(json,
                            AfterComma(json, propertyNode.offset + propertyNode.length)))
                   ELSE AfterBlanks(json,
                            AfterComma(json, propertyNode.offset + propertyNode.length)),
     isSingleLine |-> range.isSingleLine,
     commentStart |-> commentStart]

RangeOf(json, propertyNode, range) ==
    RangeWithComment(json, propertyNode, range,
        IF ~range.isSingleLine THEN findAssociatedCommentStart(json, propertyNode.offset)
        ELSE -1)

\* remove's deletion span for a found property
RemoveRange(json, propertyNode) ==
    RangeOf(json, propertyNode, getPropertyRange(json, propertyNode))

DropComma(beforeDelete, commaPos, afterDelete) ==
    Slice(beforeDelete, 0, commaPos) \o SliceFrom(beforeDelete, commaPos + 1) \o afterDelete

\* the trailing-comma handling at the end of remove
Splice(beforeDelete, afterDelete) ==
    IF endsWith(trimEnd(beforeDelete), <<",">>) /\ startsWith(trimStart(afterDelete), <<"}">>)
    THEN DropComma(beforeDelete, lastIndexOf(beforeDelete, ","), afterDelete)
    ELSE beforeDelete \o afterDelete

Cut(json, r) == Splice(Slice(json, 0, r.deleteStart), SliceFrom(json, r.deleteEnd))

RemoveFound(json, found) ==
    IF ~found.found THEN json ELSE Cut(json, RemoveRange(json, found.propertyNode))

\* remove(json, path)
remove(json, path) == RemoveFound(json, findProperty(json, path))

\* ===========================================================================
\* src/index.ts: merge strategies
\* ===========================================================================

\* the loop shared by merge and replace: apply the leaves from the i-th on
\* to result, one after the other; a throwing set ends the call
RECURSIVE ApplyLeaves(_, _, _)
AfterSet(result, edits, flatChanges, i) ==
    IF edits.threw THEN Throws(result)
    ELSE ApplyLeaves(applyEdits(result, edits), flatChanges, i + 1)

\* the loop as it would be if a deletion that finds nothing ended the call
ApplyLeavesAborting(result, flatChanges, i) ==
    IF i > Len(flatChanges) THEN Ok(result)
    ELSE IF flatChanges[i].value.k = "undef"
    THEN IF has(result, flatChanges[i].path)
         THEN ApplyLeaves(remove(result, flatChanges[i].path), flatChanges, i + 1)
         ELSE Ok(result)
    ELSE AfterSet(result, jsoncModify(result, flatChanges[i].path, flatChanges[i].value),
                  flatChanges, i)

ApplyLeaves(result, flatChanges, i) ==
    IF i > Len(flatChanges) THEN Ok(result)
    ELSE IF flatChanges[i].value.k = "undef"
    THEN ApplyLeaves(remove(result, flatChanges[i].path), flatChanges, i + 1)
    ELSE AfterSet(result, jsoncModify(result, flatChanges[i].path, flatChanges[i].value),
                  flatChanges, i)

\* merge(json, changes)
merge(json, changes) == ApplyLeaves(json, flattenChanges(changes, <<>>), 1)

\* deletions.sort((a, b) => b.path.length - a.path.length): stable, longest
\* paths first
RECURSIVE SortFrom(_, _)
SortFrom(deletions, len) ==
    IF len < 1 THEN <<>>
    ELSE SelectSeq(deletions, LAMBDA d : Len(d.path) = len) \o SortFrom(deletions, len - 1)

Longer(n, m) == IF n > m THEN n ELSE m

RECURSIVE MaxPathLen(_, _)
MaxPathLen(deletions, i) ==
    IF i > Len(deletions) THEN 0
    ELSE Longer(Len(deletions[i].path), MaxPathLen(deletions, i + 1))

\* the deletions as they would be applied without the sort
unsortedDeletions(deletions) == deletions

sortedDeletions(deletions) == SortFrom(deletions, MaxPathLen(deletions, 1))

\* for (const { path } of sortedDeletions) result = remove(result, path)
RECURSIVE ApplyDeletions(_, _, _)
ApplyDeletions(result, deletions, i) ==
    IF i > Len(deletions) THEN result
    ELSE ApplyDeletions(remove(result, deletions[i].path), deletions, i + 1)

\* replace(json, changes)
replace(json, changes) ==
    ApplyLeaves(ApplyDeletions(json, sortedDeletions(computeDeletions(json, changes, <<>>)), 1),
                flattenChanges(changes, <<>>), 1)

\* patch as it would be if it had replace semantics
patchReplacing(json, changes) == replace(json, changes)

\* patch(json, changes)
patch(json, changes) == merge(json, changes)

\* modify(json, changes)
modify(json, changes) == replace(json, changes)

\* ===========================================================================
\* src/index.ts: comment operations
\* ===========================================================================

\* while (e < json.length && json[e] !== "\n") e++
RECURSIVE ScanToNewline(_, _)
ScanToNewline(json, e) ==
    IF e < Len(json) /\ Ch(json, e) # "\n" THEN ScanToNewline(json, e + 1) ELSE e

\* if (e < json.length) e++
PastNewline(json, e) == IF e < Len(json) THEN e + 1 ELSE e

CommentLineEnd(json, end) == PastNewline(json, ScanToNewline(json, end))

\* the text with the lines of the existing comment replaced by commentLine
ReplaceComment(json, existingComment, commentLine) ==
    Slice(json, 0, LineStartOf(json, existingComment.start))
    \o commentLine
    \o SliceFrom(json, CommentLineEnd(json, existingComment.end))

\* the comment written as it would be without the single-line test
WriteCommentAnywhere(json, range, existingComment, commentLine) ==
    IF existingComment.found THEN ReplaceComment(json, existingComment, commentLine)
    ELSE Slice(json, 0, range.lineStart) \o commentLine \o SliceFrom(json, range.lineStart)

WriteComment(json, range, existingComment, commentLine) ==
    IF range.isSingleLine THEN json
    ELSE IF existingComment.found THEN ReplaceComment(json, existingComment, commentLine)
    ELSE Slice(json, 0, range.lineStart) \o commentLine \o SliceFrom(json, range.lineStart)

CommentAt(json, propertyNode, range, comment) ==
    WriteComment(json, range, findCommentAbove(json, propertyNode.offset),
        Slice(json, range.lineStart, propertyNode.offset)
        \o <<"/", "/", " ">> \o comment \o <<"\n">>)

SetCommentFound(json, found, comment) ==
    IF ~found.found THEN json
    ELSE CommentAt(json, found.propertyNode,
                   getPropertyRange(json, found.propertyNode), comment)

\* setComment(json, path, comment)
setComment(json, path, comment) == SetCommentFound(json, findProperty(json, path), comment)

DropComment(json, existingComment) ==
    IF ~existingComment.found THEN json ELSE ReplaceComment(json, existingComment, <<>>)

RemoveCommentFound(json, found) ==
    IF ~found.found THEN json
    ELSE DropComment(json, findCommentAbove(json, found.propertyNode.offset))

\* removeComment(json, path)
removeComment(json, path) == RemoveCommentFound(json, findProperty(json, path))

\* ===========================================================================
\* src/index.ts: key operations
\* ===========================================================================

\* the comment re-attached to the renamed field
Recomment(r, newPath, commentInfo) ==
    IF r.threw THEN r
    ELSE IF commentInfo.found THEN Ok(setComment(r.text, newPath, commentInfo.content))
    ELSE r

RenameTo(json, path, newPath, value, commentInfo) ==
    Recomment(set(remove(json, path), newPath, value), newPath, commentInfo)

RenameIn(json, path, newKey, found, range) ==
    RenameTo(json, path, Append(SubSeq(path, 1, Len(path) - 1), Key(newKey)),
             getNodeValue(found.node),
             IF ~range.isSingleLine THEN findCommentAbove(json, found.propertyNode.offset)
             ELSE NoComment)

RenameFound(json, path, newKey, found) ==
    IF ~found.found THEN Ok(json)
    ELSE RenameIn(json, path, newKey, found, getPropertyRange(json, found.propertyNode))

\* rename(json, path, newKey)
rename(json, path, newKey) == RenameFound(json, path, newKey, findProperty(json, path))

MoveFound(json, fromPath, toPath, found) ==
    IF ~found.found THEN Ok(json)
    ELSE set(remove(json, fromPath), toPath, getNodeValue(found.node))

\* move(json, fromPath, toPath)
move(json, fromPath, toPath) == MoveFound(json, fromPath, toPath, findProperty(json, fromPath))

\* ===========================================================================
\* the command line's path parsing (parsePath, parseSegment) and the
\* JavaScript conversion Number(string) it relies on
\* ===========================================================================

\* a JavaScript number as parseSegment looks at it: its kind ("int" for an
\* integer, "fraction", "infinity", "nan"), its sign and its magnitude
Numeric(kind, neg, val) == [kind |-> kind, neg |-> neg, val |-> val]

\* the value of a digit in a numeric literal, 16 for any other character
RadixDigit(c) ==
    IF \E n \in 1..16 : <<"0", "1", "2", "3", "4", "5", "6", "7", "8", "9",
                          "a", "b", "c", "d", "e", "f">>[n] = c
    THEN (CHOOSE n \in 1..16 : <<"0", "1", "2", "3", "4", "5", "6", "7", "8", "9",
                                 "a", "b", "c", "d", "e", "f">>[n] = c) - 1
    ELSE IF \E n \in 11..16 : <<"0", "1", "2", "3", "4", "5", "6", "7", "8", "9",
                                "A", "B", "C", "D", "E", "F">>[n] = c
    THEN (CHOOSE n \in 11..16 : <<"0", "1", "2", "3", "4", "5", "6", "7", "8", "9",
                                  "A", "B", "C", "D", "E", "F">>[n] = c) - 1
    ELSE 16

\* the value of a run of digits in radix r
RECURSIVE RadixValue(_, _)
RadixValue(s, r) ==
    IF s = <<>> THEN 0
    ELSE RadixValue(SubSeq(s, 1, Len(s) - 1), r) * r + RadixDigit(s[Len(s)])

RECURSIVE Pow10(_)
Pow10(n) == IF n <= 0 THEN 1 ELSE 10 * Pow10(n - 1)

\* mantissa * 10^scale
Scaled(neg, mantissa, scale) ==
    IF scale >= 0 THEN Numeric("int", neg, mantissa * Pow10(scale))
    ELSE IF mantissa % Pow10(-scale) = 0
         THEN Numeric("int", neg, mantissa \div Pow10(-scale))
    ELSE Numeric("fraction", neg, 0)

\* the exponent part of a decimal literal at offset x: where it ends and its
\* value; end is -1 when an e is not followed by digits
ExponentAt(u, x) ==
    IF Ch(u, x) \notin {"e", "E"} THEN [end |-> x, exp |-> 0]
    ELSE LET d == IF Ch(u, x + 1) \in {"+", "-"} THEN x + 2 ELSE x + 1 IN
         IF DigitsEnd(u, d) = d THEN [end |-> -1, exp |-> 0]
         ELSE [end |-> DigitsEnd(u, d),
               exp |-> (IF Ch(u, x + 1) = "-" THEN -1 ELSE 1)
                       * RadixValue(Slice(u, d, DigitsEnd(u, d)), 10)]

\* digits [. digits] [exponent], with the integer digits ending at ie and the
\* fraction at fe, taken as a whole
DecimalWith(u, neg, ie, fe, ex) ==
    IF (ie = 0 /\ fe <= ie + 1) \/ ex.end # Len(u) THEN Numeric("nan", FALSE, 0)
    ELSE Scaled(neg, RadixValue(Slice(u, 0, ie) \o Slice(u, ie + 1, fe), 10),
                ex.exp - (IF fe > ie THEN fe - ie - 1 ELSE 0))

\* an unsigned decimal literal or Infinity
DecimalLiteral(u, neg) ==
    IF u = <<"I", "n", "f", "i", "n", "i", "t", "y">> THEN Numeric("infinity", neg, 0)
    ELSE LET ie == DigitsEnd(u, 0) IN
         LET fe == IF Ch(u, ie) = "." THEN DigitsEnd(u, ie + 1) ELSE ie IN
         DecimalWith(u, neg, ie, fe, ExponentAt(u, fe))

\* the radix a 0x / 0o / 0b prefix announces, 0 without one
RadixOf(t) ==
    IF Len(t) < 3 \/ t[1] # "0" THEN 0
    ELSE CASE t[2] \in {"x", "X"} -> 16
           [] t[2] \in {"o", "O"} -> 8
           [] t[2] \in {"b", "B"} -> 2
           [] OTHER -> 0

RadixLiteral(t, r) ==
    IF \A i \in 3..Len(t) : RadixDigit(t[i]) < r
    THEN Numeric("int", FALSE, RadixValue(SubSeq(t, 3, Len(t)), r))
    ELSE Numeric("nan", FALSE, 0)

\* Number(segment): blanks around the literal are dropped, the empty text is
\* 0, a prefixed literal has no sign, a decimal literal may have one
Number(segment) ==
    LET t == trim(segment) IN
    IF t = <<>> THEN Numeric("int", FALSE, 0)
    ELSE IF RadixOf(t) > 0 THEN RadixLiteral(t, RadixOf(t))
    ELSE IF t[1] = "-" THEN DecimalLiteral(Tail(t), TRUE)
    ELSE IF t[1] = "+" THEN DecimalLiteral(Tail(t), FALSE)
    ELSE DecimalLiteral(t, FALSE)

\* parseSegment(segment): -0 passes num >= 0 and is the index 0
parseSegment(segment) ==
    LET num == Number(segment) IN
    IF num.kind = "int" /\ (~num.neg \/ num.val = 0) THEN Idx(num.val) ELSE Key(segment)

\* pathStr.indexOf("]", i)
IndexOfBracket(pathStr, i) ==
    IF \E j \in i..(Len(pathStr) - 1) : Ch(pathStr, j) = "]"
    THEN CHOOSE j \in i..(Len(pathStr) - 1) :
            Ch(pathStr, j) = "]" /\ \A k \in i..(j - 1) : Ch(pathStr, k) # "]"
    ELSE -1

\* if (current) result.push(parseSegment(current))
Flush(result, current) ==
    IF current # <<>> THEN Append(result, parseSegment(current)) ELSE result

\* the loop of parsePath from offset i on; an unclosed bracket throws
RECURSIVE PathFrom(_, _, _, _)
PathFrom(pathStr, i, current, result) ==
    IF i >= Len(pathStr) THEN [threw |-> FALSE, path |-> Flush(result, current)]
    ELSE IF Ch(pathStr, i) = "." THEN PathFrom(pathStr, i + 1, <<>>, Flush(result, current))
    ELSE IF Ch(pathStr, i) = "["
    THEN LET closeBracket == IndexOfBracket(pathStr, i) IN
         IF closeBracket = -1 THEN [threw |-> TRUE, path |-> <<>>]
         ELSE PathFrom(pathStr, closeBracket + 1, <<>>,
                       Append(Flush(result, current),
                              parseSegment(Slice(pathStr, i + 1, closeBracket))))
    ELSE PathFrom(pathStr, i + 1, Append(current, Ch(pathStr, i)), result)

\* parsePath(pathStr)
parsePath(pathStr) ==
    IF pathStr = <<>> THEN [threw |-> FALSE, path |-> <<>>]
    ELSE PathFrom(pathStr, 0, <<>>, <<>>)

\* ===========================================================================
\* src/cli-lib.ts: the line diff shown for a mutation
\* ===========================================================================

\* str.split("\n"): the pieces between the line feeds, at least one
RECURSIVE SplitFrom(_, _, _)
SplitFrom(str, i, current) ==
    IF i >= Len(str) THEN <<current>>
    ELSE IF Ch(str, i) = "\n" THEN <<current>> \o SplitFrom(str, i + 1, <<>>)
    ELSE SplitFrom(str, i + 1, Append(current, Ch(str, i)))

split(str) == SplitFrom(str, 0, <<>>)

\* result.join("\n")
RECURSIVE join(_)
join(lines) ==
    IF lines = <<>> THEN <<>>
    ELSE IF Len(lines) = 1 THEN lines[1]
    ELSE lines[1] \o <<"\n">> \o join(Tail(lines))

\* lines.indexOf(line, from): the first index at or behind from (counted
\* from 0) that holds the line, -1 when there is none
RECURSIVE indexOf(_, _, _)
indexOf(lines, line, from) ==
    IF from >= Len(lines) THEN -1
    ELSE IF lines[from + 1] = line THEN from
    ELSE indexOf(lines, line, from + 1)

\* chalk.gray, chalk.red and chalk.green wrap a line in colour codes when the
\* terminal takes colours; the line is carried here as it reads without them
DiffLine(mark, line) == <<mark, " ">> \o line

\* ===========================================================================
\* sort (specification 4.6; the function is missing from src/index.ts): the
\* source span of the object at path is cut into property blocks, the
\* blocks are stable-sorted by key and joined again
\* ===========================================================================

\* the characters of keys in code-unit order
CodeUnits ==
    <<"0", "1", "2", "3", "4", "5", "6", "7", "8", "9",
      "A", "B", "C", "D", "E", "F", "G", "H", "I", "J", "K", "L", "M",
      "N", "O", "P", "Q", "R", "S", "T", "U", "V", "W", "X", "Y", "Z", "_",
      "a", "b", "c", "d", "e", "f", "g", "h", "i", "j", "k", "l", "m",
      "n", "o", "p", "q", "r", "s", "t", "u", "v", "w", "x", "y", "z">>

CodeUnit(c) == CHOOSE i \in 1..Len(CodeUnits) : CodeUnits[i] = c

\* a < b, the keys being equal before position i
RECURSIVE Precedes(_, _, _)
Precedes(a, b, i) ==
    IF i > Len(b) THEN FALSE
    ELSE IF i > Len(a) THEN TRUE
    ELSE IF a[i] = b[i] THEN Precedes(a, b, i + 1)
    ELSE CodeUnit(a[i]) < CodeUnit(b[i])

lexicographic(a, b) == IF Precedes(a, b, 1) THEN -1 ELSE IF a = b THEN 0 ELSE 1

\* the comparators callers pass: the default, its reverse, and the keys'
\* lengths, which leaves keys of one length tied
compare(comparator, a, b) ==
    CASE comparator = "lexicographic" -> lexicographic(a, b)
      [] comparator = "reverse" -> lexicographic(b, a)
      [] OTHER -> Len(a) - Len(b)

\* the end of a block whose property (and comma) ends at p: a comment
\* behind it on its line and the line terminator belong to the block
AfterBlockComment(json, r, q) ==
    IF r < 0 THEN q
    ELSE IF AfterNewline(json, AfterBlanks(json, r)) # AfterBlanks(json, r)
    THEN AfterNewline(json, AfterBlanks(json, r))
    ELSE r

TailFrom(json, p, q) ==
    IF Ch(json, q) = "/" /\ Ch(json, q + 1) = "/"
    THEN AfterNewline(json, LineCommentEnd(json, q + 2))
    ELSE IF Ch(json, q) = "/" /\ Ch(json, q + 1) = "*"
    THEN AfterBlockComment(json, BlockCommentEnd(json, q + 2), p)
    ELSE IF AfterNewline(json, q) # q THEN AfterNewline(json, q)
    ELSE p

BlockTail(json, p) == TailFrom(json, p, AfterBlanks(json, p))

\* a property block: the text from the end of the block before it to the
\* property's value (indentation, leading comment, "key": value), the
\* comma if present, and the text behind it
Block(json, prop, from, bodyEnd, comma, tailStart) ==
    [key |-> prop.kids[1].value,
     body |-> Slice(json, from, bodyEnd),
     comma |-> comma,
     tail |-> Slice(json, tailStart, BlockTail(json, tailStart)),
     end |-> BlockTail(json, tailStart)]

BlockWith(json, prop, from, valueEnd, tk) ==
    IF tk.k = "," THEN Block(json, prop, from, tk.s, TRUE, tk.e)
    ELSE Block(json, prop, from, valueEnd, FALSE, valueEnd)

BlockAt(json, prop, from) ==
    BlockWith(json, prop, from, prop.offset + prop.length,
              Tok(json, prop.offset + prop.length))

\* the blocks of the properties from the i-th on, in original order
RECURSIVE BlocksFrom(_, _, _, _)
BlocksAfter(json, props, i, block) ==
    <<block>> \o BlocksFrom(json, props, i + 1, block.end)

BlocksFrom(json, props, i, from) ==
    IF i > Len(props) THEN <<>>
    ELSE BlocksAfter(json, props, i, BlockAt(json, props[i], from))

\* where the first block starts: behind the brace, or behind the line of
\* the brace when the first property is on a later line
HeaderEnd(json, node) ==
    IF Contains(Slice(json, node.offset + 1, node.kids[1].offset), <<"\n">>)
    THEN ScanToNewline(json, node.offset + 1) + 1
    ELSE node.offset + 1

\* an insertion that puts every block in front
InsertBlockFirst(sorted, block, comparator, j) == <<block>> \o sorted

\* the block goes in front of the first block whose key it precedes
RECURSIVE InsertBlock(_, _, _, _)
InsertBlock(sorted, block, comparator, j) ==
    IF j > Len(sorted) THEN Append(sorted, block)
    ELSE IF compare(comparator, block.key, sorted[j].key) < 0
    THEN SubSeq(sorted, 1, j - 1) \o <<block>> \o SubSeq(sorted, j, Len(sorted))
    ELSE InsertBlock(sorted, block, comparator, j + 1)

\* the stable sort of the blocks by key
RECURSIVE SortBlocks(_, _, _, _)
SortBlocks(blocks, i, sorted, comparator) ==
    IF i > Len(blocks) THEN sorted
    ELSE SortBlocks(blocks, i + 1, InsertBlock(sorted, blocks[i], comparator, 1), comparator)

\* the blocks joined: a comma behind every block but the last, and behind
\* the last if the object had a trailing comma
RECURSIVE JoinBlocks(_, _, _)
JoinBlocks(blocks, i, trailingComma) ==
    IF i > Len(blocks) THEN <<>>
    ELSE blocks[i].body
         \o (IF i < Len(blocks) \/ trailingComma THEN <<",">> ELSE <<>>)
         \o blocks[i].tail
         \o JoinBlocks(blocks, i + 1, trailingComma)

Reassemble(json, node, blocks, comparator) ==
    Slice(json, 0, HeaderEnd(json, node))
    \o JoinBlocks(SortBlocks(blocks, 1, <<>>, comparator), 1, blocks[Len(blocks)].comma)
    \o SliceFrom(json, blocks[Len(blocks)].end)

SortNode(json, node, comparator) ==
    IF node.kids = <<>> THEN json
    ELSE Reassemble(json, node, BlocksFrom(json, node.kids, 1, HeaderEnd(json, node)),
                    comparator)

\* the object at path reordered
SortObject(json, path, comparator) ==
    SortNode(json, findNodeAtLocation(parseTree(json), path).node, comparator)

\* the segments that lead from a node to its object and array values
Nested(node) == node.type \in {"object", "array"}

ChildSegments(node) ==
    IF node.type = "object"
    THEN [i \in 1..Len(node.kids) |-> Key(node.kids[i].kids[1].value)]
    ELSE [i \in 1..Len(node.kids) |-> Idx(i - 1)]

ChildValue(node, i) == IF node.type = "object" THEN node.kids[i].kids[2] ELSE node.kids[i]

\* deep: the same algorithm on every nested object, before the reorder
RECURSIVE SortTree(_, _, _, _)
RECURSIVE SortChildren(_, _, _, _, _)
SortChildren(json, path, node, i, comparator) ==
    IF i > Len(node.kids) THEN json
    ELSE IF Nested(ChildValue(node, i))
    THEN SortChildren(SortTree(json, Append(path, ChildSegments(node)[i]), comparator, TRUE),
                      path, node, i + 1, comparator)
    ELSE SortChildren(json, path, node, i + 1, comparator)

SortFound(json, path, node, comparator, deep) ==
    IF node.type = "object"
    THEN SortObject(IF deep THEN SortChildren(json, path, node, 1, comparator) ELSE json,
                    path, comparator)
    ELSE IF node.type = "array" /\ deep THEN SortChildren(json, path, node, 1, comparator)
    ELSE json

SortTree(json, path, comparator, deep) ==
    SortFound(json, path, findNodeAtLocation(parseTree(json), path).node, comparator, deep)

SortAt(json, path, found, comparator, deep) ==
    IF ~found.found THEN json
    ELSE IF found.node.type # "object" THEN json
    ELSE SortTree(json, path, comparator, deep)

\* sort(json, path, { comparator, deep })
sort(json, path, comparator, deep) ==
    SortAt(json, path, findNodeAtLocation(parseTree(json), path), comparator, deep)

\* ===========================================================================
\* src/cli-lib.ts: the command line.  A word is a list of characters, a
\* command line is the list of words behind the program's name
\* (process.argv.slice(2)).
\* ===========================================================================

HelpFlags == { <<"-", "-", "h", "e", "l", "p">>, <<"-", "h">> }
VersionFlags == { <<"-", "-", "v", "e", "r", "s", "i", "o", "n">>, <<"-", "v">> }
DryRunFlags == { <<"-", "-", "d", "r", "y", "-", "r", "u", "n">>, <<"-", "n">> }
NoDeepFlag == <<"-", "-", "n", "o", "-", "d", "e", "e", "p">>
AllowPathTraversalFlag == <<"-", "-", "a", "l", "l", "o", "w", "-", "p", "a", "t", "h", "-", "t", "r", "a", "v", "e", "r", "s", "a", "l">>
TabSizeFlag == <<"-", "-", "t", "a", "b", "-", "s", "i", "z", "e">>
MaxFileSizeFlag == <<"-", "-", "m", "a", "x", "-", "f", "i", "l", "e", "-", "s", "i", "z", "e">>
StdinFile == <<"-">>

\* Number.parseInt(s, 10) of a text without sign and leading blanks: the
\* value of its leading digits, NaN when there is none
ParseInt(s) ==
    IF DigitsEnd(s, 0) = 0 THEN [nan |-> TRUE, val |-> 0]
    ELSE [nan |-> FALSE, val |-> RadixValue(Slice(s, 0, DigitsEnd(s, 0)), 10)]

DEFAULT_MAX_JSON_SIZE == 10 * 1024 * 1024
DEFAULT_MAX_JSON_DEPTH == 100

\* an environment variable that is not set
Unset == <<"unset">>

EnvLimit(var, default) ==
    IF var = Unset THEN [nan |-> FALSE, val |-> default] ELSE ParseInt(var)

\* getJsonLimits(): the limits, or threw for a variable that is no number
LimitsOf(maxSize, maxDepth) ==
    [threw |-> maxSize.nan \/ maxSize.val < 0 \/ maxDepth.nan \/ maxDepth.val < 0,
     maxSize |-> maxSize.val, maxDepth |-> maxDepth.val]

getJsonLimits(env) ==
    LimitsOf(EnvLimit(env.AYWSON_MAX_JSON_SIZE, DEFAULT_MAX_JSON_SIZE),
             EnvLimit(env.AYWSON_MAX_JSON_DEPTH, DEFAULT_MAX_JSON_DEPTH))

\* calculateJsonDepth(value, currentDepth)
RECURSIVE calculateJsonDepth(_, _)
RECURSIVE DeepestOf(_, _, _, _)

\* Math.max(currentDepth, ...items.map(item => calculateJsonDepth(item, currentDepth + 1)))
DeepestOf(items, i, currentDepth, deepest) ==
    IF i > Len(items) THEN deepest
    ELSE DeepestOf(items, i + 1, currentDepth,
                   Longer(deepest, calculateJsonDepth(items[i], currentDepth + 1)))

calculateJsonDepth(value, currentDepth) ==
    IF currentDepth > 1000 THEN currentDepth
    ELSE CASE value.k = "arr" -> DeepestOf(value.v, 1, currentDepth, currentDepth)
           [] value.k = "obj" ->
                DeepestOf([i \in 1..Len(value.v) |-> value.v[i].val], 1,
                          currentDepth, currentDepth)
           [] OTHER -> currentDepth

\* the outcome of a parse that may throw
ParsedValue(value) == [threw |-> FALSE, value |-> value]
ParseThrows == [threw |-> TRUE, value |-> Undefined]

\* JSON.parse(str): JSON has neither comments nor trailing commas
JSONparse(str) ==
    IF ParseDoc(str).err \/ ParseDoc(str).tc \/ parseTree(str).type = "none"
       \/ Contains(str, <<"/", "/">>) \/ Contains(str, <<"/", "*">>)
    THEN ParseThrows
    ELSE ParsedValue(getNodeValue(parseTree(str)))

CheckDepth(parsed, depthLimit) ==
    IF parsed.threw THEN ParseThrows
    ELSE IF calculateJsonDepth(parsed.value, 0) > depthLimit THEN ParseThrows
    ELSE parsed

ParseWithin(str, limits) ==
    IF limits.threw THEN ParseThrows
    ELSE IF Len(str) > limits.maxSize THEN ParseThrows
    ELSE CheckDepth(JSONparse(str), limits.maxDepth)

\* safeJsonParse(str)
safeJsonParse(str, env) == ParseWithin(str, getJsonLimits(env))

\* validatePath(filePath, allowPathTraversal) for a path relative to the
\* working directory whose only ".." segments lead it: relative(base,
\* resolved) is then the path as given
validatePath(filePath, allowPathTraversal) ==
    IF allowPathTraversal \/ filePath = StdinFile THEN [threw |-> FALSE, path |-> filePath]
    ELSE IF startsWith(filePath, <<".", ".">>) \/ Contains(filePath, <<".", ".">>)
    THEN [threw |-> TRUE, path |-> filePath]
    ELSE [threw |-> FALSE, path |-> filePath]

\* the positional arguments: no flag, and no value of --tab-size or of
\* --max-file-size
Positional(args) ==
    [i \in 1..Len(args) |->
        (~startsWith(args[i], <<"-">>) \/ args[i] = StdinFile)
        /\ (i = 1 \/ args[i - 1] \notin {TabSizeFlag, MaxFileSizeFlag})]

RECURSIVE Filter(_, _, _)
Filter(args, keep, i) ==
    IF i > Len(args) THEN <<>>
    ELSE (IF keep[i] THEN <<args[i]>> ELSE <<>>) \o Filter(args, keep, i + 1)

Has(args, flags) == \E i \in 1..Len(args) : args[i] \in flags

\* the three ways parseArgs ends: null after help or version, exit(1), or
\* the parsed arguments
ParsedArgs(args, positional) ==
    IF Len(positional) < 2 \/ positional[1] = <<>> \/ positional[2] = <<>>
    THEN [null |-> FALSE, exit |-> TRUE]
    ELSE [null |-> FALSE, exit |-> FALSE,
          command |-> positional[1], file |-> positional[2],
          args |-> SubSeq(positional, 3, Len(positional)),
          dryRun |-> Has(args, DryRunFlags),
          noDeep |-> Has(args, {NoDeepFlag}),
          allowPathTraversal |-> Has(args, {AllowPathTraversalFlag})]

\* parseArgs(argv) for command lines without --tab-size and
\* --max-file-size, whose values stay at their defaults
parseArgs(args) ==
    IF Has(args, HelpFlags) \/ Has(args, VersionFlags)
    THEN [null |-> TRUE, exit |-> FALSE]
    ELSE ParsedArgs(args, Filter(args, Positional(args), 1))

\* what a run does to the outside: the calls of writeFileSync, and whether
\* it ended in process.exit(1)
Exit1 == [exit |-> TRUE, writes |-> <<>>]
Done(writes) == [exit |-> FALSE, writes |-> writes]

\* writeOutput(file, content, allowPathTraversal)
WriteTo(validated, content) ==
    IF validated.threw THEN Exit1
    ELSE Done(<<[file |-> validated.path, content |-> content]>>)

writeOutput(file, content, allowPathTraversal) ==
    IF file = StdinFile THEN Done(<<>>)
    ELSE WriteTo(validatePath(file, allowPathTraversal), content)

\* handleMutation as it would be without the dry-run test
handleMutationAlways(file, original, result, dryRun, allowPathTraversal) ==
    IF file # StdinFile THEN writeOutput(file, result, allowPathTraversal)
    ELSE Done(<<>>)

\* handleMutation(file, original, result, dryRun, allowPathTraversal)
handleMutation(file, original, result, dryRun, allowPathTraversal) ==
    IF ~dryRun /\ file # StdinFile THEN writeOutput(file, result, allowPathTraversal)
    ELSE Done(<<>>)

\* a library call inside run's try block, and the mutation it hands over
Mutation(p, json, result) ==
    IF result.threw THEN Exit1
    ELSE handleMutation(p.file, json, result.text, p.dryRun, p.allowPathTraversal)

\* !arg: the argument is missing or empty
Missing(args, i) == Len(args) < i \/ args[i] = <<>>

IsObject(value) == value.k = "obj"

GetCommand(p, json) ==
    IF Missing(p.args, 1) THEN Exit1
    ELSE IF parsePath(p.args[1]).threw THEN Exit1
    ELSE Done(<<>>)

SetWith(p, json, path, value) ==
    IF path.threw \/ value.threw THEN Exit1
    ELSE Mutation(p, json, set(json, path.path, value.value))

SetCommand(p, json, env) ==
    IF Missing(p.args, 1) \/ Missing(p.args, 2) THEN Exit1
    ELSE SetWith(p, json, parsePath(p.args[1]), safeJsonParse(p.args[2], env))

RemoveWith(p, json, path) ==
    IF path.threw THEN Exit1 ELSE Mutation(p, json, Ok(remove(json, path.path)))

RemoveCommand(p, json) ==
    IF Missing(p.args, 1) THEN Exit1 ELSE RemoveWith(p, json, parsePath(p.args[1]))

ModifyWith(p, json, changes) ==
    IF changes.threw THEN Exit1
    ELSE IF ~IsObject(changes.value) THEN Exit1
    ELSE Mutation(p, json, modify(json, changes.value))

ModifyCommand(p, json, env) ==
    IF Missing(p.args, 1) THEN Exit1 ELSE ModifyWith(p, json, safeJsonParse(p.args[1], env))

MergeWith(p, json, changes) ==
    IF changes.threw THEN Exit1
    ELSE IF ~IsObject(changes.value) THEN Exit1
    ELSE Mutation(p, json, merge(json, changes.value))

MergeCommand(p, json, env) ==
    IF Missing(p.args, 1) THEN Exit1 ELSE MergeWith(p, json, safeJsonParse(p.args[1], env))

RenameWith(p, json, path) ==
    IF path.threw THEN Exit1 ELSE Mutation(p, json, rename(json, path.path, p.args[2]))

RenameCommand(p, json) ==
    IF Missing(p.args, 1) \/ Missing(p.args, 2) THEN Exit1
    ELSE RenameWith(p, json, parsePath(p.args[1]))

MoveWith(p, json, fromPath, toPath) ==
    IF fromPath.threw \/ toPath.threw THEN Exit1
    ELSE Mutation(p, json, move(json, fromPath.path, toPath.path))

MoveCommand(p, json) ==
    IF Missing(p.args, 1) \/ Missing(p.args, 2) THEN Exit1
    ELSE MoveWith(p, json, parsePath(p.args[1]), parsePath(p.args[2]))

\* sort with the default comparator; without a path argument the root
SortWith(p, json, path) ==
    IF path.threw THEN Exit1
    ELSE Mutation(p, json, Ok(sort(json, path.path, "lexicographic", ~p.noDeep)))

SortCommand(p, json) ==
    SortWith(p, json, IF Missing(p.args, 1) THEN parsePath(<<>>) ELSE parsePath(p.args[1]))

\* comment without --trailing: a text sets the comment, no text prints it
CommentWith(p, json, path) ==
    IF path.threw THEN Exit1
    ELSE IF Len(p.args) < 2 THEN Done(<<>>)
    ELSE Mutation(p, json, Ok(setComment(json, path.path, p.args[2])))

CommentCommand(p, json) ==
    IF Missing(p.args, 1) THEN Exit1 ELSE CommentWith(p, json, parsePath(p.args[1]))

UncommentWith(p, json, path) ==
    IF path.threw THEN Exit1 ELSE Mutation(p, json, Ok(removeComment(json, path.path)))

UncommentCommand(p, json) ==
    IF Missing(p.args, 1) THEN Exit1 ELSE UncommentWith(p, json, parsePath(p.args[1]))

\* the switch of run
Switch(p, json, env) ==
    CASE p.command = <<"g", "e", "t">> -> GetCommand(p, json)
      [] p.command = <<"s", "e", "t">> -> SetCommand(p, json, env)
      [] p.command = <<"r", "e", "m", "o", "v", "e">> -> RemoveCommand(p, json)
      [] p.command = <<"m", "o", "d", "i", "f", "y">> -> ModifyCommand(p, json, env)
      [] p.command = <<"m", "e", "r", "g", "e">> -> MergeCommand(p, json, env)
      [] p.command = <<"r", "e", "n", "a", "m", "e">> -> RenameCommand(p, json)
      [] p.command = <<"m", "o", "v", "e">> -> MoveCommand(p, json)
      [] p.command = <<"s", "o", "r", "t">> -> SortCommand(p, json)
      [] p.command = <<"c", "o", "m", "m", "e", "n", "t">> -> CommentCommand(p, json)
      [] p.command = <<"u", "n", "c", "o", "m", "m", "e", "n", "t">> -> UncommentCommand(p, json)
      [] OTHER -> Exit1

\* readInput(file, allowPathTraversal, ...) of a file that exists and is
\* smaller than the size limit, then the switch
RunParsed(p, content, env) ==
    IF p.null THEN Done(<<>>)
    ELSE IF p.exit THEN Exit1
    ELSE IF validatePath(p.file, p.allowPathTraversal).threw THEN Exit1
    ELSE Switch(p, content, env)

\* run() on a command line, with the content of the file it names (of the
\* standard input for the file "-") and the environment
run(args, content, env) == RunParsed(parseArgs(args), content, env)

\* ===========================================================================
\* The documents a caller supplies: valid JSONC in the layouts the library
\* distinguishes (one property per line, several per line, single-line,
\* comments above, behind and on the brace line, LF and CRLF)
\* ===========================================================================

\* the number of properties of the root object
MaxProps == 2

KeyNames == << <<"a">>, <<"b">>, <<"c">>, <<"d">> >>
DigitOf == <<"1", "2", "3", "4">>
ProtoKey == <<"v","a","l","u","e","O","f">>

Eol(d) == IF d.eol = "crlf" THEN <<"\r", "\n">> ELSE <<"\n">>
Indent == <<" ", " ">>

CommentKinds == {"line", "lineKeep", "block", "blockKeep", "lineStar", "lineKeepStar"}

\* the text of a comment; the Keep kinds carry the ** marker, and the Star
\* kinds are line comments whose text ends with the two characters */
CommentOf(kind) ==
    CASE kind = "line" -> <<"/", "/", " ", "x">>
      [] kind = "lineKeep" -> <<"/", "/", " ", "*", "*", "k">>
      [] kind = "lineStar" -> <<"/", "/", " ", "z", " ", "*", "/">>
      [] kind = "lineKeepStar" -> <<"/", "/", " ", "*", "*", "s", " ", "*", "/">>
      [] kind = "block" -> <<"/", "*", " ", "y", " ", "*", "/">>
      [] kind = "blockKeep" -> <<"/", "*", " ", "*", "*", "k", " ", "*", "/">>
      [] OTHER -> <<>>

\* the key of the i-th property of a described document
KeyOf(d, i) == IF i = d.t /\ d.tkey = "proto" THEN ProtoKey ELSE KeyNames[i]

\* the value text of the i-th property
ValueOf(d, i) ==
    IF i # d.t THEN <<DigitOf[i]>>
    ELSE CASE d.vk = "arr" -> <<"[", "1", ",", " ", "2", "]">>
           [] d.vk = "objE" -> <<"{", "}">>
           [] d.vk = "objI" ->
                <<"{", " ">> \o Quote(<<"x">>) \o <<":", " ", "1", ",", " ">>
                \o Quote(<<"y">>) \o <<":", " ", "2", " ", "}">>
           [] d.vk = "objM" ->
                <<"{">> \o Eol(d)
                \o Indent \o Indent \o Quote(<<"x">>) \o <<":", " ", "1", ",">> \o Eol(d)
                \o Indent \o Indent \o Quote(<<"y">>) \o <<":", " ", "2">> \o Eol(d)
                \o Indent \o <<"}">>
           [] OTHER -> <<DigitOf[i]>>

PropText(d, i) == Quote(KeyOf(d, i)) \o <<":", " ">> \o ValueOf(d, i)

\* the comma after the i-th property
Sep(d, i) == IF i < d.n \/ d.tail = "comma" THEN <<",">> ELSE <<>>

\* one property per line, the featured one with its comments
RECURSIVE PerLine(_, _)
PerLine(d, i) ==
    IF i > d.n THEN <<>>
    ELSE (IF i = d.t /\ d.lead # "none"
          THEN Indent \o CommentOf(d.lead) \o Eol(d) ELSE <<>>)
         \o Indent \o PropText(d, i) \o Sep(d, i)
         \o (IF i = d.t /\ d.trail # "none" THEN <<" ">> \o CommentOf(d.trail) ELSE <<>>)
         \o (IF i < d.n \/ d.tail # "inline" THEN Eol(d) ELSE <<" ">>)
         \o PerLine(d, i + 1)

\* the properties side by side
RECURSIVE Packed(_, _)
Packed(d, i) ==
    IF i > d.n THEN <<>>
    ELSE PropText(d, i) \o Sep(d, i) \o (IF i < d.n THEN <<" ">> ELSE <<>>)
         \o Packed(d, i + 1)

HeadText(d) == IF d.head # "none" THEN <<" ">> \o CommentOf(d.head) ELSE <<>>

\* a comment on a line of its own right below the opening brace
PreText(d) == IF d.pre # "none" THEN Indent \o CommentOf(d.pre) \o Eol(d) ELSE <<>>

\* the text of a described document
Render(d) ==
    CASE d.layout = "single" ->
           <<"{">> \o HeadText(d) \o <<" ">> \o Packed(d, 1) \o <<" ", "}">>
      [] d.layout = "packed" ->
           <<"{">> \o HeadText(d) \o Eol(d)
           \o (IF d.lead # "none" THEN Indent \o CommentOf(d.lead) \o Eol(d) ELSE <<>>)
           \o Indent \o Packed(d, 1)
           \o (IF d.tail # "inline" THEN Eol(d) ELSE <<" ">>) \o <<"}">>
      [] OTHER ->
           <<"{">> \o HeadText(d) \o Eol(d) \o PreText(d) \o PerLine(d, 1) \o <<"}">>

Base(n, t) ==
    [n |-> n, t |-> t, eol |-> "lf", head |-> "none", pre |-> "none", layout |-> "perLine",
     tail |-> "own", lead |-> "none", trail |-> "none", vk |-> "num", tkey |-> "plain"]

Eols == {"lf", "crlf"}

\* the comments of the featured property: <<above, behind>>
Decos == { <<"none", "none">>, <<"line", "none">>, <<"lineKeep", "none">>,
           <<"block", "none">>, <<"blockKeep", "none">>, <<"none", "line">>,
           <<"none", "lineKeep">>, <<"none", "block">>, <<"line", "line">> }

\* one property per line, one of them commented
CommentedDocs ==
    { [Base(n, t) EXCEPT !.eol = e, !.lead = dc[1], !.trail = dc[2], !.tail = tl] :
        n \in 1..MaxProps, t \in 1..MaxProps, e \in Eols, dc \in Decos,
        tl \in {"own", "comma"} }

\* a comment on the line of the opening brace
HeadDocs ==
    { [Base(n, 1) EXCEPT !.eol = e, !.head = h, !.layout = l,
                         !.tail = IF l = "packed" THEN "inline" ELSE "own"] :
        n \in 1..MaxProps, e \in Eols, h \in CommentKinds, l \in {"perLine", "packed"} }

\* an array or an object as a property's value
ValueDocs ==
    { [Base(n, t) EXCEPT !.vk = vk, !.layout = l] :
        n \in 1..MaxProps, t \in 1..MaxProps, vk \in {"arr", "objE", "objI", "objM"},
        l \in {"perLine", "single"} }

\* several properties on one line of a multi-line document
PackedDocs ==
    { [Base(n, 1) EXCEPT !.eol = e, !.layout = "packed", !.tail = tl, !.lead = ld] :
        n \in 2..MaxProps, e \in Eols, tl \in {"own", "inline"}, ld \in {"none", "line"} }

\* the whole document on one line
SingleDocs ==
    { [Base(n, 1) EXCEPT !.layout = "single", !.head = h, !.tail = tl] :
        n \in 1..MaxProps, h \in {"none", "block", "blockKeep"}, tl \in {"own", "comma"} }

\* a line comment that ends with */ above a property, with or without a
\* block comment earlier in the text
StarDocs ==
    { [Base(n, t) EXCEPT !.pre = p, !.lead = ld] :
        n \in 1..MaxProps, t \in 1..MaxProps, p \in {"none", "block"},
        ld \in {"lineStar", "lineKeepStar"} }

\* a key that Object.prototype also defines
ProtoDocs ==
    { [Base(n, t) EXCEPT !.tkey = "proto", !.layout = l] :
        n \in 1..MaxProps, t \in 1..MaxProps, l \in {"perLine", "single"} }

Descriptions ==
    { d \in CommentedDocs \cup HeadDocs \cup ValueDocs \cup PackedDocs
            \cup SingleDocs \cup StarDocs \cup ProtoDocs : d.t <= d.n }

\* texts without a parse tree: the empty text and a lone comment
TreelessDocs == { <<>>, CommentOf("line") }

\* the two documents of the specification's examples: a comment on the line
\* of the opening brace, ordinary and detached
DropExample ==
    <<"{", " ", "/", "/", " ", "d", "r", "o", "p", "\n", " ">>
    \o Quote(<<"a">>) \o <<":", " ", "1", ",", " ">> \o Quote(<<"b">>) \o <<":", " ", "2", " ", "}">>

KeepExample ==
    <<"{", " ", "/", "/", " ", "*", "*", " ", "k", "e", "e", "p", "\n", " ">>
    \o Quote(<<"a">>) \o <<":", " ", "1", ",", " ">> \o Quote(<<"b">>) \o <<":", " ", "2", " ", "}">>

\* a carriage return without a line feed behind a property of a multi-line
\* document
LoneCrDocs == {
    <<"{", "\n", " ", " ">> \o Quote(<<"a">>) \o <<":", " ", "1", ",", "\r", " ", " ">>
        \o Quote(<<"b">>) \o <<":", " ", "2", "\n", "}">>,
    <<"{", "\n", " ", " ">> \o Quote(<<"a">>) \o <<":", " ", "1", " ", "\r", "}">> }

Docs ==
    { Render(d) : d \in Descriptions } \cup TreelessDocs \cup {DropExample, KeepExample}
    \cup LoneCrDocs

\* ===========================================================================
\* The arguments callers pass
\* ===========================================================================

\* every path of a tree that resolves to a node other than the root
RECURSIVE PathsBelow(_, _)
PathsBelow(node, prefix) ==
    CASE node.type = "object" ->
           UNION { IF Len(node.kids[i].kids) = 2
                   THEN LET q == Append(prefix, Key(node.kids[i].kids[1].value))
                        IN  {q} \cup PathsBelow(node.kids[i].kids[2], q)
                   ELSE {} : i \in 1..Len(node.kids) }
      [] node.type = "array" ->
           UNION { LET q == Append(prefix, Idx(i - 1))
                   IN  {q} \cup PathsBelow(node.kids[i], q) : i \in 1..Len(node.kids) }
      [] OTHER -> {}

PathsOf(json) == PathsBelow(parseTree(json), <<>>)

Ka == Key(<<"a">>)
Kb == Key(<<"b">>)
Kn == Key(<<"n">>)
Km == Key(<<"m">>)
Kx == Key(<<"x">>)

\* paths that may not resolve, and the root path
ExtraPaths == { <<>>, <<Kn>>, <<Kn, Km>>, <<Ka, Kn>>, <<Kb, Kn>>, <<Kb, Idx(2)>>, <<Ka, Kx>> }

\* the root path and a missing key
MissPaths == { <<>>, <<Kn>> }

V5 == Num(<<"5">>)
EmptyObj == Obj(<<>>)

SetValues == { V5, EmptyObj, Arr(<<V5>>) }

\* change descriptions for merge / replace / patch / modify
Changes == {
    Obj(<<>>),
    Obj(<<Entry(<<"a">>, V5)>>),
    Obj(<<Entry(<<"b">>, V5)>>),
    Obj(<<Entry(<<"n">>, V5)>>),
    Obj(<<Entry(<<"a">>, Undefined)>>),
    Obj(<<Entry(<<"b">>, Undefined)>>),
    Obj(<<Entry(<<"b">>, Undefined), Entry(<<"a">>, V5)>>),
    Obj(<<Entry(<<"a">>, V5), Entry(<<"b">>, Undefined)>>),
    Obj(<<Entry(<<"n">>, Undefined), Entry(<<"a">>, V5)>>),
    Obj(<<Entry(<<"a">>, Arr(<<V5>>)), Entry(<<"b">>, V5)>>),
    Obj(<<Entry(<<"a">>, Obj(<<Entry(<<"x">>, V5)>>))>>),
    Obj(<<Entry(<<"b">>, Obj(<<Entry(<<"x">>, V5)>>))>>),
    Obj(<<Entry(<<"b">>, Obj(<<Entry(<<"x">>, Undefined)>>)), Entry(<<"a">>, V5)>>),
    Obj(<<Entry(<<"a">>, EmptyObj)>>),
    Obj(<<Entry(<<"n">>, EmptyObj)>>),
    Obj(<<Entry(<<"n">>, Obj(<<Entry(<<"m">>, V5)>>))>>),
    Obj(<<Entry(ProtoKey, V5)>>),
    Obj(<<Entry(<<"a">>, Null), Entry(<<"b">>, Obj(<<Entry(<<"x">>, Arr(<<>>))>>))>>) }

AliasChanges == {
    Obj(<<Entry(<<"a">>, V5)>>),
    Obj(<<Entry(<<"b">>, Undefined), Entry(<<"a">>, V5)>>),
    Obj(<<Entry(<<"n">>, Obj(<<Entry(<<"m">>, V5)>>))>>) }

NewKeys == { <<"z">>, <<"b">> }
Comments == { <<"h", "i">> }

\* ===========================================================================
\* The state machine: a caller loads a document and applies one operation
\* ===========================================================================

\* local holds the local variables of a function that is followed step by
\* step; it is empty where a call is taken as a whole
VARIABLES doc, prev, op, path, path2, change, text, threw, local

vars == <<doc, prev, op, path, path2, change, text, threw, local>>

Init ==
    /\ doc \in Docs
    /\ prev = doc
    /\ op = "load"
    /\ path = <<>>
    /\ path2 = <<>>
    /\ change = Undefined
    /\ text = <<>>
    /\ threw = FALSE
    /\ local = <<>>

\* the record of a call: its name, arguments and outcome
Call(name, p, p2, c, txt, result) ==
    /\ prev' = doc
    /\ op' = name
    /\ path' = p
    /\ path2' = p2
    /\ change' = c
    /\ text' = txt
    /\ doc' = result.text
    /\ threw' = result.threw
    /\ local' = local

Remove ==
    /\ op = "load"
    /\ \E p \in PathsOf(doc) \cup ExtraPaths :
           Call("remove", p, <<>>, Undefined, <<>>, Ok(remove(doc, p)))

Set ==
    /\ op = "load"
    /\ \E p \in PathsOf(doc) \cup ExtraPaths, v \in SetValues :
           Call("set", p, <<>>, v, <<>>, set(doc, p, v))

Merge ==
    /\ op = "load"
    /\ \E c \in Changes : Call("merge", <<>>, <<>>, c, <<>>, merge(doc, c))

Replace ==
    /\ op = "load"
    /\ \E c \in Changes : Call("replace", <<>>, <<>>, c, <<>>, replace(doc, c))

Patch ==
    /\ op = "load"
    /\ \E c \in AliasChanges : Call("patch", <<>>, <<>>, c, <<>>, patch(doc, c))

Modify ==
    /\ op = "load"
    /\ \E c \in AliasChanges : Call("modify", <<>>, <<>>, c, <<>>, modify(doc, c))

Rename ==
    /\ op = "load"
    /\ \E p \in PathsOf(doc) \cup MissPaths, k \in NewKeys :
           Call("rename", p, <<Key(k)>>, Undefined, <<>>, rename(doc, p, k))

Move ==
    /\ op = "load"
    /\ \E p \in PathsOf(doc) \cup MissPaths, q \in {<<Kn>>, <<Kn, Km>>, <<Kb, Kn>>} :
           Call("move", p, q, Undefined, <<>>, move(doc, p, q))

SetComment ==
    /\ op = "load"
    /\ \E p \in PathsOf(doc) \cup MissPaths, c \in Comments :
           Call("setComment", p, <<>>, Undefined, c, Ok(setComment(doc, p, c)))

RemoveComment ==
    /\ op = "load"
    /\ \E p \in PathsOf(doc) \cup MissPaths :
           Call("removeComment", p, <<>>, Undefined, <<>>, Ok(removeComment(doc, p)))

Next ==
    \/ Remove
    \/ Set
    \/ Merge
    \/ Replace
    \/ Patch
    \/ Modify
    \/ Rename
    \/ Move
    \/ SetComment
    \/ RemoveComment

Spec == Init /\ [][Next]_vars

\* ===========================================================================
\* The command line parses a path argument
\* ===========================================================================

\* the number of segments of a path argument
MaxSegments == 2

\* the tokens of a path argument: keys, digits, and texts Number accepts or
\* rejects
Tokens == { <<"a">>, <<"b">>, <<"2">>, <<"1", "0">>, <<"0", "1">>, <<"-", "1">>,
            <<"+", "1">>, <<"1", "e", "1">>, <<" ", "1">>, <<"0", "x", "1">>,
            <<"-", "0">>, <<"1", "a">> }

\* tokens only brackets can hold
BracketTokens == { <<>>, <<"1", ".", "0">>, <<"1", ".", "5">> }

\* a described path argument: its tokens, each in dot or in bracket notation
Segment(tok, bracket) == [tok |-> tok, bracket |-> bracket]

Segments ==
    { Segment(t, b) : t \in Tokens, b \in BOOLEAN }
    \cup { Segment(t, TRUE) : t \in BracketTokens }

PathDescriptions == UNION { [1..n -> Segments] : n \in 1..MaxSegments }

RECURSIVE RenderPath(_, _)
RenderPath(d, i) ==
    IF i > Len(d) THEN <<>>
    ELSE (IF d[i].bracket THEN <<"[">> \o d[i].tok \o <<"]">>
          ELSE (IF i > 1 THEN <<".">> ELSE <<>>) \o d[i].tok)
         \o RenderPath(d, i + 1)

\* the empty argument, an unclosed bracket, and the described arguments
PathStrings ==
    { <<>>, <<"a", "[", "1">> } \cup { RenderPath(d, 1) : d \in PathDescriptions }

PathInit ==
    /\ text \in PathStrings
    /\ doc = <<>>
    /\ prev = <<>>
    /\ op = "load"
    /\ path = <<>>
    /\ path2 = <<>>
    /\ change = Undefined
    /\ threw = FALSE
    /\ local = <<>>

ParsePath ==
    /\ op = "load"
    /\ op' = "parsePath"
    /\ path' = parsePath(text).path
    /\ threw' = parsePath(text).threw
    /\ UNCHANGED <<doc, prev, path2, change, text, local>>

PathNext == ParsePath

PathSpec == PathInit /\ [][PathNext]_vars

\* ===========================================================================
\* replace followed step by step: the work list is built, the deletions are
\* applied one per step, then the leaves, then the result is returned
\* ===========================================================================

\* let result = json; computeDeletions, flattenChanges, deletions.sort
ReplaceBegin ==
    /\ op = "load"
    /\ \E c \in Changes :
           /\ change' = c
           /\ local' = [result |-> doc,
                        sortedDeletions |->
                            sortedDeletions(computeDeletions(doc, c, <<>>)),
                        flatChanges |-> flattenChanges(c, <<>>),
                        i |-> 1, j |-> 1]
    /\ op' = "replace"
    /\ UNCHANGED <<doc, prev, path, path2, text, threw>>

\* one round of: for (const { path } of sortedDeletions)
ReplaceDeletion ==
    /\ op \in {"replace", "deletion"}
    /\ local.i <= Len(local.sortedDeletions)
    /\ local' = [local EXCEPT
                    !.result = remove(@, local.sortedDeletions[local.i].path),
                    !.i = @ + 1]
    /\ op' = "deletion"
    /\ path' = local.sortedDeletions[local.i].path
    /\ UNCHANGED <<doc, prev, path2, change, text, threw>>

\* the body of: for (const { path, value } of flatChanges)
LeafApplied(result, leaf) ==
    IF leaf.value.k = "undef" THEN Ok(remove(result, leaf.path))
    ELSE ApplyOrThrow(result, jsoncModify(result, leaf.path, leaf.value))

\* one round of the second loop; a throwing jsoncModify ends the call
ReplaceLeaf ==
    /\ op \in {"replace", "deletion", "leaf"}
    /\ local.i > Len(local.sortedDeletions)
    /\ local.j <= Len(local.flatChanges)
    /\ \E r \in {LeafApplied(local.result, local.flatChanges[local.j])} :
           /\ local' = [local EXCEPT !.result = r.text, !.j = @ + 1]
           /\ op' = IF r.threw THEN "threw" ELSE "leaf"
           /\ threw' = r.threw
    /\ path' = local.flatChanges[local.j].path
    /\ UNCHANGED <<doc, prev, path2, change, text>>

\* return result
ReplaceReturn ==
    /\ op \in {"replace", "deletion", "leaf"}
    /\ local.i > Len(local.sortedDeletions)
    /\ local.j > Len(local.flatChanges)
    /\ doc' = local.result
    /\ op' = "returned"
    /\ UNCHANGED <<prev, path, path2, change, text, threw, local>>

ReplaceNext ==
    \/ ReplaceBegin
    \/ ReplaceDeletion
    \/ ReplaceLeaf
    \/ ReplaceReturn

ReplaceSpec == Init /\ [][ReplaceNext]_vars

\* ===========================================================================
\* diff followed round by round of its loop
\* ===========================================================================

\* the number of lines of the strings compared
MaxLines == 3

LineTexts == { <<>>, <<"a">>, <<"b">> }

LineLists == UNION { [1..n -> LineTexts] : n \in 1..MaxLines }

\* the lines with a line feed between them
RECURSIVE RenderLines(_, _)
RenderLines(ls, i) ==
    IF i > Len(ls) THEN <<>>
    ELSE (IF i > 1 THEN <<"\n">> ELSE <<>>) \o ls[i] \o RenderLines(ls, i + 1)

DiffStrings == { RenderLines(ls, 1) : ls \in LineLists }

DiffInit ==
    /\ prev \in DiffStrings
    /\ doc \in DiffStrings
    /\ op = "load"
    /\ path = <<>>
    /\ path2 = <<>>
    /\ change = Undefined
    /\ text = <<>>
    /\ threw = FALSE
    /\ local = <<>>

\* oldLines, newLines, result, oldIdx, newIdx
DiffBegin ==
    /\ op = "load"
    /\ op' = "diff"
    /\ local' = [oldLines |-> split(prev), newLines |-> split(doc), result |-> <<>>,
                 oldIdx |-> 0, newIdx |-> 0]
    /\ UNCHANGED <<doc, prev, path, path2, change, text, threw>>

\* while (oldIdx < oldLines.length || newIdx < newLines.length)
DiffLooping ==
    /\ op = "diff"
    /\ local.oldIdx < Len(local.oldLines) \/ local.newIdx < Len(local.newLines)

\* a round of the loop: the lines pushed and the advance of the two indexes
\* the round as it would be if every branch advanced both indexes
DiffRoundBoth(pushed, oldStep, newStep) ==
    /\ local' = [local EXCEPT !.result = @ \o pushed,
                              !.oldIdx = @ + 1, !.newIdx = @ + 1]
    /\ UNCHANGED <<doc, prev, op, path, path2, change, text, threw>>

DiffRound(pushed, oldStep, newStep) ==
    /\ local' = [local EXCEPT !.result = @ \o pushed,
                              !.oldIdx = @ + oldStep, !.newIdx = @ + newStep]
    /\ UNCHANGED <<doc, prev, op, path, path2, change, text, threw>>

\* oldLine === undefined: only new lines left
DiffOnlyNew ==
    /\ DiffLooping
    /\ local.oldIdx >= Len(local.oldLines)
    /\ DiffRound(<<DiffLine("+", local.newLines[local.newIdx + 1])>>, 0, 1)

\* newLine === undefined: only old lines left
DiffOnlyOld ==
    /\ DiffLooping
    /\ local.oldIdx < Len(local.oldLines)
    /\ local.newIdx >= Len(local.newLines)
    /\ DiffRound(<<DiffLine("-", local.oldLines[local.oldIdx + 1])>>, 1, 0)

\* both lines are there
DiffBothLeft ==
    /\ DiffLooping
    /\ local.oldIdx < Len(local.oldLines)
    /\ local.newIdx < Len(local.newLines)

\* oldLine === newLine
DiffMatch ==
    /\ DiffBothLeft
    /\ local.oldLines[local.oldIdx + 1] = local.newLines[local.newIdx + 1]
    /\ DiffRound(<<DiffLine(" ", local.oldLines[local.oldIdx + 1])>>, 1, 1)

\* the look-ahead of the last branch
oldInNew == indexOf(local.newLines, local.oldLines[local.oldIdx + 1], local.newIdx)
newInOld == indexOf(local.oldLines, local.newLines[local.newIdx + 1], local.oldIdx)

DiffDiffer ==
    /\ DiffBothLeft
    /\ local.oldLines[local.oldIdx + 1] # local.newLines[local.newIdx + 1]

\* neither line appears later
DiffChange ==
    /\ DiffDiffer
    /\ oldInNew = -1 /\ newInOld = -1
    /\ DiffRound(<<DiffLine("-", local.oldLines[local.oldIdx + 1]),
                   DiffLine("+", local.newLines[local.newIdx + 1])>>, 1, 1)

\* oldInNew === -1 || (newInOld !== -1 && newInOld < oldInNew)
DiffTakeOld ==
    /\ DiffDiffer
    /\ ~(oldInNew = -1 /\ newInOld = -1)
    /\ oldInNew = -1 \/ (newInOld # -1 /\ newInOld < oldInNew)
    /\ DiffRound(<<DiffLine("-", local.oldLines[local.oldIdx + 1])>>, 1, 0)

DiffTakeNew ==
    /\ DiffDiffer
    /\ ~(oldInNew = -1 /\ newInOld = -1)
    /\ ~(oldInNew = -1 \/ (newInOld # -1 /\ newInOld < oldInNew))
    /\ DiffRound(<<DiffLine("+", local.newLines[local.newIdx + 1])>>, 0, 1)

\* return result.join("\n")
DiffReturn ==
    /\ op = "diff"
    /\ ~(local.oldIdx < Len(local.oldLines) \/ local.newIdx < Len(local.newLines))
    /\ op' = "returned"
    /\ text' = join(local.result)
    /\ UNCHANGED <<doc, prev, path, path2, change, threw, local>>

DiffNext ==
    \/ DiffBegin
    \/ DiffOnlyNew
    \/ DiffOnlyOld
    \/ DiffMatch
    \/ DiffChange
    \/ DiffTakeOld
    \/ DiffTakeNew
    \/ DiffReturn

DiffSpec == DiffInit /\ [][DiffNext]_vars

\* ===========================================================================
\* A run of the command line: the words, the file they name and the
\* environment; text holds the words, doc the content of the file (of the
\* standard input for the file "-"), local the environment and the calls
\* of writeFileSync
\* ===========================================================================

CliDocs ==
    { Render(Base(2, 1)), Render([Base(2, 1) EXCEPT !.layout = "single"]),
      Render([Base(2, 2) EXCEPT !.lead = "line"]), KeepExample,
      <<"{", "\n", " ", " ", "\"", "b", "\"", ":", " ", "{", " ", "\"", "z", "\"", ":", " ", "1", ",", " ", "\"", "a", "\"", ":", " ", "2", " ", "}", ",", "\n", " ", " ", "\"", "a", "\"", ":", " ", "1", "\n", "}">> }

\* flags in front of the command or behind its arguments
CliFlags ==
    { <<>>, <<<<"-", "-", "d", "r", "y", "-", "r", "u", "n">>>>, <<<<"-", "n">>>>, <<AllowPathTraversalFlag>>,
      <<<<"-", "-", "d", "r", "y", "-", "r", "u", "n">>, AllowPathTraversalFlag>>, <<<<"-", "-", "h", "e", "l", "p">>>>, <<<<"-", "v">>>>, <<NoDeepFlag>> }

\* a file below the working directory, one outside it, the standard input
CliFiles == { <<"c", ".", "j", "s", "o", "n">>, <<".", ".", "/", "c", ".", "j", "s", "o", "n">>, StdinFile }

\* a command and its arguments
CliCommands == {
    <<<<"g", "e", "t">>, <<"a">>>>,
    <<<<"s", "e", "t">>, <<"a">>, <<"5">>>>,
    <<<<"s", "e", "t">>, <<"n">>, <<"[", "5", "]">>>>,
    <<<<"s", "e", "t">>, <<"a">>, <<"{">>>>,
    <<<<"s", "e", "t">>, <<"a">>>>,
    <<<<"s", "e", "t">>, <<"a", "[", "1">>, <<"5">>>>,
    <<<<"s", "e", "t">>, <<"a", ".", "n">>, <<"5">>>>,
    <<<<"r", "e", "m", "o", "v", "e">>, <<"a">>>>,
    <<<<"r", "e", "m", "o", "v", "e">>>>,
    <<<<"m", "o", "d", "i", "f", "y">>, <<"{", "\"", "a", "\"", ":", "5", "}">>>>,
    <<<<"m", "o", "d", "i", "f", "y">>, <<"5">>>>,
    <<<<"m", "e", "r", "g", "e">>, <<"{", "\"", "n", "\"", ":", "5", "}">>>>,
    <<<<"m", "e", "r", "g", "e">>, <<"[", "5", "]">>>>,
    <<<<"r", "e", "n", "a", "m", "e">>, <<"a">>, <<"z">>>>,
    <<<<"r", "e", "n", "a", "m", "e">>, <<"a">>>>,
    <<<<"m", "o", "v", "e">>, <<"a">>, <<"n">>>>,
    <<<<"s", "o", "r", "t">>>>,
    <<<<"s", "o", "r", "t">>, <<"b">>>>,
    <<<<"c", "o", "m", "m", "e", "n", "t">>, <<"b">>, <<"h", "i">>>>,
    <<<<"c", "o", "m", "m", "e", "n", "t">>, <<"b">>>>,
    <<<<"u", "n", "c", "o", "m", "m", "e", "n", "t">>, <<"b">>>>,
    <<<<"b", "o", "g", "u", "s">>, <<"a">>>> }

CommandLines ==
    { f \o <<c[1], file>> \o Tail(c) : f \in CliFlags, c \in CliCommands, file \in CliFiles }
    \cup { <<c[1], file>> \o Tail(c) \o f : f \in CliFlags, c \in CliCommands, file \in CliFiles }
    \cup { <<<<"s", "e", "t">>>>, <<<<"s", "e", "t">>, <<"-", "-", "d", "r", "y", "-", "r", "u", "n">>>> }

Envs ==
    { [AYWSON_MAX_JSON_SIZE |-> s, AYWSON_MAX_JSON_DEPTH |-> d] :
        s \in {Unset, <<"2">>}, d \in {Unset, <<"0">>, <<"x">>} }

CliInit ==
    /\ text \in CommandLines
    /\ doc \in CliDocs
    /\ prev = doc
    /\ op = "load"
    /\ path = <<>>
    /\ path2 = <<>>
    /\ change = Undefined
    /\ threw = FALSE
    /\ local \in { [env |-> e, writes |-> <<>>] : e \in Envs }

\* the content of the named file after the calls of writeFileSync
FileAfter(content, writes) ==
    IF writes = <<>> THEN content ELSE writes[Len(writes)].content

RunEnds(r) ==
    /\ doc' = FileAfter(doc, r.writes)
    /\ prev' = doc
    /\ threw' = r.exit
    /\ local' = [local EXCEPT !.writes = r.writes]

Run ==
    /\ op = "load"
    /\ op' = "run"
    /\ RunEnds(run(text, doc, local.env))
    /\ UNCHANGED <<path, path2, change, text>>

CliNext == Run

CliSpec == CliInit /\ [][CliNext]_vars

\* ===========================================================================
\* A caller sorts a document: the documents above, the same with the keys
\* a and b exchanged, and documents with three keys, nested objects,
\* comments and trailing commas
\* ===========================================================================

\* the text with the characters a and b exchanged
ExchangeKeys(json) ==
    [i \in 1..Len(json) |->
        IF json[i] = "a" THEN "b" ELSE IF json[i] = "b" THEN "a" ELSE json[i]]

SortExamples == {
    <<"{", "\n", " ", " ", "\"", "z", "\"", ":", " ", "1", ",", "\n", " ", " ", "\"", "a", "\"", ":", " ", "2", ",", "\n", " ", " ", "\"", "m", "\"", ":", " ", "3", "\n", "}">>,
    <<"{", " ", "\"", "z", "\"", ":", " ", "1", ",", " ", "\"", "a", "\"", ":", " ", "2", ",", " ", "\"", "m", "\"", ":", " ", "3", " ", "}">>,
    <<"{", "\n", " ", " ", "\"", "z", "\"", ":", " ", "1", ",", "\n", " ", " ", "\"", "a", "\"", ":", " ", "2", ",", "\n", "}">>,
    <<"{", " ", "\"", "z", "\"", ":", " ", "1", ",", " ", "\"", "a", "\"", ":", " ", "2", ",", " ", "}">>,
    <<"{", "\n", " ", " ", "/", "/", " ", "z", " ", "c", "o", "m", "m", "e", "n", "t", "\n", " ", " ", "\"", "z", "\"", ":", " ", "1", ",", "\n", " ", " ", "/", "/", " ", "a", " ", "c", "o", "m", "m", "e", "n", "t", "\n", " ", " ", "\"", "a", "\"", ":", " ", "2", "\n", "}">>,
    <<"{", "\n", " ", " ", "\"", "z", "\"", ":", " ", "1", ",", " ", "/", "/", " ", "z", " ", "c", "o", "m", "m", "e", "n", "t", "\n", " ", " ", "\"", "a", "\"", ":", " ", "2", " ", "/", "/", " ", "a", " ", "c", "o", "m", "m", "e", "n", "t", "\n", "}">>,
    <<"{", " ", "\"", "z", "\"", ":", " ", "1", " ", "/", "*", " ", "z", " ", "*", "/", ",", " ", "\"", "a", "\"", ":", " ", "2", " ", "/", "*", " ", "a", " ", "*", "/", " ", "}">>,
    <<"{", "\n", " ", " ", "\"", "z", "\"", ":", " ", "1", ",", "\n", " ", " ", "\"", "a", "\"", ":", " ", "{", "\n", " ", " ", " ", " ", "\"", "z", "\"", ":", " ", "1", ",", "\n", " ", " ", " ", " ", "\"", "a", "\"", ":", " ", "2", "\n", " ", " ", "}", "\n", "}">>,
    <<"{", "\n", " ", " ", "\"", "a", "\"", ":", " ", "{", "\n", " ", " ", " ", " ", "\"", "z", "\"", ":", " ", "1", ",", "\n", " ", " ", " ", " ", "\"", "b", "\"", ":", " ", "2", "\n", " ", " ", "}", ",", "\n", " ", " ", "\"", "b", "\"", ":", " ", "1", "\n", "}">>,
    <<"{", " ", "\"", "b", "\"", ":", " ", "[", "{", " ", "\"", "z", "\"", ":", " ", "1", ",", " ", "\"", "a", "\"", ":", " ", "2", " ", "}", "]", ",", " ", "\"", "a", "\"", ":", " ", "1", " ", "}">>,
    <<"{", "\r", "\n", " ", " ", "\"", "b", "\"", ":", " ", "1", ",", " ", "\"", "a", "\"", ":", " ", "2", ",", "\r", "\n", " ", " ", "\"", "a", "b", "\"", ":", " ", "3", "\r", "\n", "}">>,
    <<"{", "}">> }

SortDocs ==
    { d \in Docs \cup { ExchangeKeys(d) : d \in Docs } : ValidJsonc(d) } \cup SortExamples

SortPaths == { <<>>, <<Ka>>, <<Kb>>, <<Kn>>, <<Kb, Idx(0)>> }

Comparators == { "lexicographic", "reverse", "length" }

SortInit ==
    /\ doc \in SortDocs
    /\ prev = doc
    /\ op = "load"
    /\ path = <<>>
    /\ path2 = <<>>
    /\ change = Undefined
    /\ text = <<>>
    /\ threw = FALSE
    /\ local = <<>>

Sorted(p, comparator, deep) ==
    /\ doc' = sort(doc, p, comparator, deep)
    /\ prev' = doc
    /\ op' = "sort"
    /\ path' = p
    /\ local' = [comparator |-> comparator, deep |-> deep]
    /\ UNCHANGED <<path2, change, text, threw>>

Sort ==
    /\ op = "load"
    /\ \E p \in SortPaths, comparator \in Comparators, deep \in BOOLEAN :
           Sorted(p, comparator, deep)

SortNext == Sort

SortSpec == SortInit /\ [][SortNext]_vars

\* ===========================================================================
\* Properties
\* ===========================================================================

\* p is q or an ancestor of q
IsPrefix(p, q) == Len(p) <= Len(q) /\ SubSeq(q, 1, Len(p)) = p

\* neither path is the other or above the other
Unrelated(p, q) == ~IsPrefix(p, q) /\ ~IsPrefix(q, p)

\* the paths the frame properties look at
ProbePaths(json) == PathsOf(json) \cup ExtraPaths

\* p resolves to the value of an object property
ResolvesToProperty(json, p) == p # <<>> /\ IsKey(p[Len(p)]) /\ has(json, p)

MutatingOps ==
    {"set", "remove", "merge", "replace", "rename", "move", "setComment", "removeComment"}

\* C1: no partial success.  Whenever a mutating operation returns for a
\* syntactically valid document, with a key or an index path, the returned
\* text is the input byte for byte or is a syntactically valid document.
NoPartialSuccess ==
    (op \in MutatingOps /\ ValidJsonc(prev) /\ ~threw)
        => (doc = prev \/ ValidJsonc(doc))

\* C2: remove touches only its target.  After remove(x, p) for a path p that
\* resolves to a property of a valid x, every path q that is not p, below p
\* or above p exists as before and has the value it had, in every layout.
RemoveTouchesOnlyTarget ==
    (op = "remove" /\ ValidJsonc(prev) /\ ResolvesToProperty(prev, path))
        => \A q \in ProbePaths(prev) :
              Unrelated(path, q)
                  => /\ has(doc, q) = has(prev, q)
                     /\ get(doc, q) = get(prev, q)

NotFoundOps == {"remove", "rename", "move", "setComment", "removeComment"}

\* the path names nothing that could be a property: it does not resolve (a
\* missing key, or a text without a parse tree) or it is the root path
Misses(json, p) == p = <<>> \/ ~has(json, p)

\* C3: not-found is an identity no-op.  remove, rename, move, setComment and
\* removeComment called with a path that does not resolve to a property
\* return the text they were given, byte for byte, and do not throw.
NotFoundIsIdentity ==
    (op \in NotFoundOps /\ Misses(prev, path)) => (doc = prev /\ ~threw)

\* a call of C3's kind happened: a rename of a missing key in a valid document
NotFoundReached ==
    /\ op = "rename"
    /\ ValidJsonc(prev)
    /\ parseTree(prev).type = "object"
    /\ path = <<Kn>>
    /\ ~has(prev, path)

\* the trimmed text of the line above the line that holds offset off
LineAboveText(json, off) ==
    LET ls == LineStartOf(json, off) IN
    IF ls = 0 THEN <<>> ELSE trim(Slice(json, LineStartOf(json, ls - 1), ls - 1))

\* only blanks stand between the start of the line and offset off
StartsItsLine(json, off) == trim(Slice(json, LineStartOf(json, off), off)) = <<>>

\* s is one whole comment, delimiters included
IsLineComment(s) == startsWith(s, Slash2)
IsBlockComment(s) ==
    Len(s) >= 4 /\ startsWith(s, <<"/", "*">>) /\ BlockCommentEnd(s, 2) = Len(s)
IsComment(s) == IsLineComment(s) \/ IsBlockComment(s)

\* the content of a comment: its text without the delimiters, trimmed
CommentContent(s) ==
    IF IsLineComment(s) THEN trim(SliceFrom(s, 2)) ELSE trim(Slice(s, 2, Len(s) - 2))

IsDetached(s) == startsWith(CommentContent(s), Star2)

\* the comment on the line above offset off: the whole line, or what follows
\* the opening brace on it; <<>> when there is none
LeadingComment(json, off) ==
    LET s == LineAboveText(json, off) IN
    IF IsComment(s) THEN s
    ELSE IF startsWith(s, <<"{">>) /\ IsComment(trim(SliceFrom(s, 1)))
         THEN trim(SliceFrom(s, 1))
    ELSE <<>>

\* the comment behind a property on its line, after the value, the optional
\* comma and blanks; <<>> when there is none
TrailingComment(json, node) ==
    LET e == AfterBlanks(json, AfterComma(json, node.offset + node.length)) IN
    IF Ch(json, e) = "/" /\ Ch(json, e + 1) = "/"
    THEN trimEnd(Slice(json, e, LineCommentEnd(json, e)))
    ELSE IF Ch(json, e) = "/" /\ Ch(json, e + 1) = "*" /\ BlockCommentEnd(json, e + 2) > 0
    THEN Slice(json, e, BlockCommentEnd(json, e + 2))
    ELSE <<>>

\* the offset of the property the path resolves to
PropertyOffset(json, p) == findProperty(json, p).propertyNode.offset

\* the quoted key a path ends with
QuotedKey(p) == Quote(p[Len(p)].key)

\* C4: detachment.  When the property removed starts its line and the comment
\* above it (on a line of its own or behind the opening brace) has content
\* starting with **, the property is gone and the comment's text is still in
\* the output.
DetachedCommentSurvives ==
    (op = "remove" /\ ValidJsonc(prev) /\ ResolvesToProperty(prev, path)
       /\ StartsItsLine(prev, PropertyOffset(prev, path))
       /\ LeadingComment(prev, PropertyOffset(prev, path)) # <<>>
       /\ IsDetached(LeadingComment(prev, PropertyOffset(prev, path))))
        => /\ ~has(doc, path)
           /\ Contains(doc, LeadingComment(prev, PropertyOffset(prev, path)))

\* the property at p starts its line below a line that is one ordinary comment
HasOrdinaryCommentAbove(json, p) ==
    /\ ResolvesToProperty(json, p)
    /\ StartsItsLine(json, PropertyOffset(json, p))
    /\ IsComment(LineAboveText(json, PropertyOffset(json, p)))
    /\ ~IsDetached(LineAboveText(json, PropertyOffset(json, p)))

\* neither the comment above p nor p's key is left in out
CommentAndKeyGone(json, p, out) ==
    /\ ~Contains(out, LineAboveText(json, PropertyOffset(json, p)))
    /\ ~Contains(out, QuotedKey(p))

\* C5: ordinary comment deletion.  When a property in multi-line context
\* stands below a line that is a line or block comment not starting with **,
\* removing it (by remove, or by omission in replace or modify) leaves
\* neither the comment's text nor the key in the output.
OrdinaryCommentDeleted ==
    /\ (op = "remove" /\ ValidJsonc(prev) /\ HasOrdinaryCommentAbove(prev, path))
          => CommentAndKeyGone(prev, path, doc)
    /\ (op \in {"replace", "modify"} /\ ValidJsonc(prev) /\ ~threw)
          => \A i \in 1..Len(getObjectKeys(parseTree(prev))) :
                LET k == getObjectKeys(parseTree(prev))[i] IN
                (~HasOwn(change, k) /\ HasOrdinaryCommentAbove(prev, <<Key(k)>>))
                    => CommentAndKeyGone(prev, <<Key(k)>>, doc)

\* C6: for the document { // drop (newline) "a": 1, "b": 2 }, the result of
\* remove(x, ["a"]) contains neither // drop nor "a".
DropExampleLosesComment ==
    (op = "remove" /\ prev = DropExample /\ path = <<Ka>>)
        => /\ ~Contains(doc, <<"/", "/", " ", "d", "r", "o", "p">>)
           /\ ~Contains(doc, Quote(<<"a">>))

\* C7: remove deletes the trailing comment.  When a comment follows the
\* removed property on its line, the output no longer contains it unless its
\* content starts with **, in which case it is kept.
TrailingCommentDeleted ==
    (op = "remove" /\ ValidJsonc(prev) /\ ResolvesToProperty(prev, path)
       /\ TrailingComment(prev, findProperty(prev, path).propertyNode) # <<>>)
        => LET c == TrailingComment(prev, findProperty(prev, path).propertyNode) IN
           IF IsDetached(c) THEN Contains(doc, c) ELSE ~Contains(doc, c)

\* the paths of the keys a value x holds, at the root or at a level where x
\* and the change c both hold an object, that c does not mention there
RECURSIVE OmittedPaths(_, _, _)
OmittedPaths(x, c, prefix) ==
    UNION { IF ~HasOwn(c, x.v[i].key)
            THEN {Append(prefix, Key(x.v[i].key))}
            ELSE IF x.v[i].val.k = "obj" /\ OwnValue(c, x.v[i].key).k = "obj"
            THEN OmittedPaths(x.v[i].val, OwnValue(c, x.v[i].key),
                              Append(prefix, Key(x.v[i].key)))
            ELSE {} : i \in 1..Len(x.v) }

\* the paths of the keys of x that c mentions with a value, at those levels
RECURSIVE KeptPaths(_, _, _)
KeptPaths(x, c, prefix) ==
    UNION { IF HasOwn(c, x.v[i].key) /\ OwnValue(c, x.v[i].key).k # "undef"
            THEN {Append(prefix, Key(x.v[i].key))}
                 \cup (IF x.v[i].val.k = "obj" /\ OwnValue(c, x.v[i].key).k = "obj"
                       THEN KeptPaths(x.v[i].val, OwnValue(c, x.v[i].key),
                                      Append(prefix, Key(x.v[i].key)))
                       ELSE {})
            ELSE {} : i \in 1..Len(x.v) }

\* C8: replace deletes by omission.  After replace(x, c) on a valid document
\* with an object root, every key x holds at the root, or at a nested level
\* where x and c both hold an object, that c does not mention there is absent,
\* whatever its name, and the keys c mentions with a value are present.
ReplaceDeletesOmitted ==
    (op \in {"replace", "modify"} /\ ValidJsonc(prev)
       /\ parseTree(prev).type = "object" /\ ~threw)
        => /\ \A q \in OmittedPaths(get(prev, <<>>), change, <<>>) : ~has(doc, q)
           /\ \A q \in KeptPaths(get(prev, <<>>), change, <<>>) : has(doc, q)

\* every key path of a change description, at every level
RECURSIVE MentionedPaths(_, _)
MentionedPaths(c, prefix) ==
    UNION { {Append(prefix, Key(c.v[i].key))}
            \cup (IF c.v[i].val.k = "obj"
                  THEN MentionedPaths(c.v[i].val, Append(prefix, Key(c.v[i].key)))
                  ELSE {}) : i \in 1..Len(c.v) }

\* C9: merge leaves alone what the change does not mention.  After
\* merge(x, c) on a valid document, every path of x that is not a path c
\* mentions, above one or below one exists as before and has the value it
\* had, also when c holds explicit deletions.
MergeKeepsUnmentioned ==
    (op \in {"merge", "patch"} /\ ValidJsonc(prev) /\ ~threw)
        => \A q \in PathsOf(prev) :
              (\A m \in MentionedPaths(change, <<>>) : Unrelated(m, q))
                  => /\ has(doc, q) = has(prev, q)
                     /\ get(doc, q) = get(prev, q)

\* the value a change description holds at a key path
RECURSIVE ChangeValue(_, _)
ChangeValue(c, p) ==
    IF p = <<>> THEN c ELSE ChangeValue(OwnValue(c, Head(p).key), Tail(p))

\* a value of a change description as it reads once written: without the
\* keys that carry the absence marker
RECURSIVE Written(_)
WrittenEntries(es) == SelectSeq(es, LAMBDA e : e.val.k # "undef")
Written(v) ==
    IF v.k = "obj"
    THEN Obj([i \in 1..Len(WrittenEntries(v.v)) |->
                Entry(WrittenEntries(v.v)[i].key, Written(WrittenEntries(v.v)[i].val))])
    ELSE v

\* C10: merge and replace write what the change says.  After merge(x, c) or
\* replace(x, c) on a valid object document, every key path of c whose value
\* is a scalar or an array reads back deep-equal to that value, and every key
\* path whose value is a nested object free of absence markers, empty or not,
\* reads back as an object: after replace one deep-equal to the value, after
\* merge one that the value's own key paths are read from.
WritesWhatChangeSays ==
    (op \in {"merge", "replace"} /\ ValidJsonc(prev)
       /\ parseTree(prev).type = "object" /\ ~threw)
        => \A m \in MentionedPaths(change, <<>>) :
              LET v == ChangeValue(change, m) IN
              (v.k # "undef" /\ Written(v) = v)
                  => IF v.k = "obj" /\ op = "merge"
                     THEN get(doc, m).k = "obj"
                     ELSE DeepEq(get(doc, m), v)

\* the change description c without the key at path p
RECURSIVE WithoutLeaf(_, _)
WithoutLeaf(c, p) ==
    IF Len(p) = 1
    THEN Obj(SelectSeq(c.v, LAMBDA e : e.key # p[1].key))
    ELSE Obj([i \in 1..Len(c.v) |->
                IF c.v[i].key = p[1].key
                THEN Entry(c.v[i].key, WithoutLeaf(c.v[i].val, Tail(p)))
                ELSE c.v[i]])

\* the paths of the leaves of c that carry the absence marker
DeletionLeaves(c) ==
    { flattenChanges(c, <<>>)[i].path :
        i \in { j \in 1..Len(flattenChanges(c, <<>>)) :
                   flattenChanges(c, <<>>)[j].value.k = "undef" } }

\* the outcome of the call the state records
Outcome == [threw |-> threw, text |-> doc]

AliasesAreExact ==
    /\ op = "patch" => Outcome = merge(prev, change)
    /\ op = "modify" => Outcome = replace(prev, change)

\* a modify call changed a valid document, to something merge would not
\* have produced
AliasReached ==
    /\ op = "modify"
    /\ ValidJsonc(prev)
    /\ ~threw
    /\ doc # prev
    /\ doc # merge(prev, change).text

\* the path of the sibling of p named by the last segment of k
Sibling(p, k) == SubSeq(p, 1, Len(p) - 1) \o k

\* C13: rename carries the value.  After rename(x, p, newKey) on a valid
\* document, for p resolving to an object property and newKey different from
\* p's last segment, the sibling path named newKey reads the value p had and
\* p no longer exists.
RenameCarriesValue ==
    (op = "rename" /\ ValidJsonc(prev) /\ ResolvesToProperty(prev, path)
       /\ path2 # <<path[Len(path)]>>)
        => /\ ~threw
           /\ has(doc, Sibling(path, path2))
           /\ DeepEq(get(doc, Sibling(path, path2)), get(prev, path))
           /\ ~has(doc, path)

\* no key occurs twice among the properties of the root object
RootKeysDistinct(json) ==
    \A i, j \in 1..Len(getObjectKeys(parseTree(json))) :
        getObjectKeys(parseTree(json))[i] = getObjectKeys(parseTree(json))[j] => i = j

\* C14: rename leaves the other properties alone.  After rename(x, p, newKey)
\* on a valid document, for p resolving to an object property, every path of
\* x that is unrelated to p and to the renamed sibling still exists with the
\* value it had, and no key of the root object occurs twice.
RenameKeepsOthers ==
    (op = "rename" /\ ValidJsonc(prev) /\ ResolvesToProperty(prev, path))
        => /\ \A q \in PathsOf(prev) :
                 (Unrelated(path, q) /\ Unrelated(Sibling(path, path2), q))
                     => /\ has(doc, q)
                        /\ get(doc, q) = get(prev, q)
           /\ RootKeysDistinct(doc)

\* the property at p starts its line below a line that is one comment
HasCommentAbove(json, p) ==
    /\ ResolvesToProperty(json, p)
    /\ StartsItsLine(json, PropertyOffset(json, p))
    /\ IsComment(LineAboveText(json, PropertyOffset(json, p)))

\* the content of the comment on the line above the property at p
ContentAbove(json, p) == CommentContent(LineAboveText(json, PropertyOffset(json, p)))

\* C15: rename carries the leading comment.  When the property renamed starts
\* its line below a comment line with content t, ordinary or detached, then
\* after the rename the line above the property named newKey is a comment
\* with content t, and t occurs once in the text.
RenameCarriesComment ==
    (op = "rename" /\ ValidJsonc(prev) /\ HasCommentAbove(prev, path))
        => /\ ~threw
           /\ ResolvesToProperty(doc, Sibling(path, path2))
           /\ IsComment(LineAboveText(doc, PropertyOffset(doc, Sibling(path, path2))))
           /\ ContentAbove(doc, Sibling(path, path2)) = ContentAbove(prev, path)
           /\ Occurrences(doc, ContentAbove(prev, path)) = 1

\* every existing proper ancestor of q holds an object, so a value can be
\* set at q
Settable(json, q) ==
    \A n \in 1..(Len(q) - 1) :
        has(json, SubSeq(q, 1, n)) => get(json, SubSeq(q, 1, n)).k = "obj"

\* C16: move relocates the value.  After move(x, fromPath, toPath) on a valid
\* document, for fromPath resolving to an object property and a toPath that
\* is neither fromPath, above it nor below it, and not below a scalar or an
\* array, toPath reads the value fromPath had and fromPath no longer exists.
MoveRelocatesValue ==
    (op = "move" /\ ValidJsonc(prev) /\ ResolvesToProperty(prev, path)
       /\ Unrelated(path, path2) /\ Settable(prev, path2))
        => /\ ~threw
           /\ has(doc, path2)
           /\ DeepEq(get(doc, path2), get(prev, path))
           /\ ~has(doc, path)

\* the text between the start of the property's line and the property holds
\* an opening brace
InSingleLineContext(json, p) ==
    includes(Slice(json, LineStartOf(json, PropertyOffset(json, p)), PropertyOffset(json, p)),
             "{")

\* C17: setComment leaves a single-line container alone.  When the property
\* at p is in single-line context, setComment(x, p, c) returns x unchanged.
SetCommentSkipsSingleLine ==
    (op = "setComment" /\ ResolvesToProperty(prev, path) /\ InSingleLineContext(prev, path))
        => doc = prev

\* setComment was called on a property of a one-line document
SingleLineCommentAttempted ==
    /\ op = "setComment"
    /\ ValidJsonc(prev)
    /\ ResolvesToProperty(prev, path)
    /\ InSingleLineContext(prev, path)
    /\ ~includes(prev, "\n")
    /\ doc = prev

\* the line above the line that holds offset off, without its line break
RawLineAbove(json, off) ==
    Slice(json, LineStartOf(json, LineStartOf(json, off) - 1), LineStartOf(json, off) - 1)

\* the text without the line above the line that holds offset off
CutLineAbove(json, off) ==
    Slice(json, 0, LineStartOf(json, LineStartOf(json, off) - 1))
    \o SliceFrom(json, LineStartOf(json, off))

\* what stands between the start of the property's line and the property
Indentation(json, p) ==
    Slice(json, LineStartOf(json, PropertyOffset(json, p)), PropertyOffset(json, p))

\* C18: setComment sets exactly one leading comment.  After
\* setComment(x, p, c) on a valid document, for a property in multi-line
\* context, the line above the property is its whitespace indentation, then
\* // and a blank, then c; and the text without that line is the input, or
\* the input without the comment line that stood above the property.
SetCommentWritesOneLine ==
    (op = "setComment" /\ ValidJsonc(prev) /\ ResolvesToProperty(prev, path)
       /\ ~InSingleLineContext(prev, path))
        => /\ ResolvesToProperty(doc, path)
           /\ trim(Indentation(doc, path)) = <<>>
           /\ LineStartOf(doc, PropertyOffset(doc, path)) > 0
           /\ RawLineAbove(doc, PropertyOffset(doc, path))
                  = Indentation(doc, path) \o <<"/", "/", " ">> \o text
           /\ CutLineAbove(doc, PropertyOffset(doc, path))
                  = IF IsComment(LineAboveText(prev, PropertyOffset(prev, path)))
                    THEN CutLineAbove(prev, PropertyOffset(prev, path))
                    ELSE prev

\* the property at p has no leading comment: it does not start its line, or
\* the line above holds no comment, neither as a whole nor behind the
\* opening brace
NoLeadingComment(json, p) ==
    \/ ~StartsItsLine(json, PropertyOffset(json, p))
    \/ LeadingComment(json, PropertyOffset(json, p)) = <<>>

\* C19: removeComment is the identity when there is nothing to remove.  For
\* a path that resolves to a property without a leading comment, single-line
\* properties included, removeComment(x, p) returns x byte for byte.
RemoveCommentWithoutComment ==
    (op = "removeComment" /\ ValidJsonc(prev) /\ ResolvesToProperty(prev, path)
       /\ NoLeadingComment(prev, path))
        => doc = prev

\* the token consists of decimal digits only
OnlyDigits(tok) == tok # <<>> /\ \A i \in 1..Len(tok) : tok[i] \in Digits

\* the decimal value of a run of digits
RECURSIVE DigitsValue(_)
DigitsValue(tok) ==
    IF tok = <<>> THEN 0
    ELSE DigitsValue(SubSeq(tok, 1, Len(tok) - 1)) * 10
         + (CHOOSE n \in 0..9 : <<"0", "1", "2", "3", "4", "5", "6", "7", "8", "9">>[n + 1]
                                   = tok[Len(tok)])

\* the path the tokens of a described argument stand for: an index for a
\* token of digits, a key for any other
PathOfTokens(d) ==
    [i \in 1..Len(d) |->
        IF OnlyDigits(d[i].tok) THEN Idx(DigitsValue(d[i].tok)) ELSE Key(d[i].tok)]

\* C20: path-string parsing.  parsePath gives, for an argument made of
\* tokens in dot or bracket notation, one segment per token: an integer index
\* if and only if the token consists of decimal digits only, and the token
\* itself as a key otherwise, the same for both notations; the empty
\* argument gives the empty path.
ParsePathSegments ==
    op = "parsePath"
        => /\ text = <<>> => (path = <<>> /\ ~threw)
           /\ \A d \in PathDescriptions :
                 RenderPath(d, 1) = text => (~threw /\ path = PathOfTokens(d))

\* the place of a key path in a change description: the position of each of
\* its keys among the keys of its level
RECURSIVE KeyIndexes(_, _)
KeyIndexes(c, p) ==
    IF p = <<>> THEN <<>>
    ELSE <<CHOOSE i \in 1..Len(c.v) : c.v[i].key = Head(p).key>>
         \o KeyIndexes(OwnValue(c, Head(p).key), Tail(p))

\* a comes before b in key order: at the first level they differ, a's key
\* stands earlier
ComesBefore(a, b) ==
    \E n \in 1..Len(a) :
        /\ n <= Len(b)
        /\ SubSeq(a, 1, n - 1) = SubSeq(b, 1, n - 1)
        /\ a[n] < b[n]

\* the key paths of a change description that lead to a value other than a
\* plain object
LeafPaths(c) == { m \in MentionedPaths(c, <<>>) : ChangeValue(c, m).k # "obj" }

\* C26: flattening is total and exact.  flattenChanges emits one leaf for
\* every value of the change description that is not a plain object (a
\* number, null, an array, the absence marker), at the path of keys leading
\* to it and with that value, the absence marker as a delete leaf, and no
\* leaf for anything else; the emitted paths are pairwise distinct, none is a
\* prefix of another, and they appear in the change description's key order.
FlatteningIsExact ==
    op \in {"merge", "replace", "patch", "modify"}
        => LET f == flattenChanges(change, <<>>) IN
           /\ { f[i].path : i \in 1..Len(f) } = LeafPaths(change)
           /\ \A i \in 1..Len(f) : f[i].value = ChangeValue(change, f[i].path)
           /\ \A i, j \in 1..Len(f) :
                 i < j => /\ Unrelated(f[i].path, f[j].path)
                          /\ ComesBefore(KeyIndexes(change, f[i].path),
                                         KeyIndexes(change, f[j].path))

\* a change with a null leaf and an array leaf below a nested object was
\* flattened
NullAndNestedFlattened ==
    /\ op = "merge"
    /\ \E m \in LeafPaths(change) : ChangeValue(change, m) = Null
    /\ \E m \in LeafPaths(change) : Len(m) = 2 /\ ChangeValue(change, m).k = "arr"
    /\ Len(flattenChanges(change, <<>>)) = 2

\* the two halves of replace's work list, for the call the state records
DeletionList == computeDeletions(prev, change, <<>>)
LeafList == flattenChanges(change, <<>>)

\* C28: the work list of replace is conflict-free.  Every path
\* computeDeletions returns names a key that exists in the original document,
\* no deletion path is a proper prefix of another deletion path, and no
\* deletion path is equal to, a prefix of, or an extension of a flattened
\* change leaf path; so no leaf sets a key at or below a path deleted by
\* omission.
WorkListConflictFree ==
    op \in {"replace", "modify"}
        => /\ \A i \in 1..Len(DeletionList) :
                 /\ has(prev, DeletionList[i].path)
                 /\ DeletionList[i].value = Undefined
           /\ \A i, j \in 1..Len(DeletionList) :
                 IsPrefix(DeletionList[i].path, DeletionList[j].path)
                     => DeletionList[i].path = DeletionList[j].path
           /\ \A i \in 1..Len(DeletionList), j \in 1..Len(LeafList) :
                 Unrelated(DeletionList[i].path, LeafList[j].path)

\* replace was called with a work list that holds a nested deletion by
\* omission and a leaf
NestedWorkList ==
    /\ op = "replace"
    /\ LeafList # <<>>
    /\ \E i \in 1..Len(DeletionList) : Len(DeletionList[i].path) = 2

\* the paths of a list of leaves
PathsIn(list) == { list[i].path : i \in 1..Len(list) }

\* the number of entries of a list with the given path
CountIn(list, p) == Cardinality({ i \in 1..Len(list) : list[i].path = p })

\* C23: ordering inside replace.  The deletions by omission are those
\* computed against the original document; they are applied in non-increasing
\* path length, all of them before any flattened change leaf, and every step,
\* deletion or leaf, is applied to the text the previous step produced,
\* the first one to the original.
ReplaceStepsInOrder ==
    [][ /\ op' = "replace"
            => /\ local'.result = doc
               /\ Len(local'.sortedDeletions) = Len(computeDeletions(doc, change', <<>>))
               /\ \A p \in PathsIn(local'.sortedDeletions) :
                     CountIn(local'.sortedDeletions, p)
                         = CountIn(computeDeletions(doc, change', <<>>), p)
        /\ op' = "deletion"
            => /\ op \in {"replace", "deletion"}
               /\ path' \in PathsIn(computeDeletions(doc, change, <<>>))
               /\ op = "deletion" => Len(path') <= Len(path)
               /\ local'.result = remove(local.result, path')
        /\ op' \in {"leaf", "threw"}
            => /\ local.i = Len(computeDeletions(doc, change, <<>>)) + 1
               /\ path' = flattenChanges(change, <<>>)[local.j].path
               /\ local'.result = LeafApplied(local.result, local.flatChanges[local.j]).text
        /\ op' = "returned"
            => /\ local.j = Len(flattenChanges(change, <<>>)) + 1
               /\ doc' = local.result
      ]_vars

\* a leaf was applied after two deletions, the deeper one first although the
\* original document holds the shallower one first
DeeperDeletedFirst ==
    /\ op = "leaf"
    /\ Len(local.sortedDeletions) = 2
    /\ Len(local.sortedDeletions[1].path) = 2
    /\ Len(local.sortedDeletions[2].path) = 1
    /\ Len(computeDeletions(doc, change, <<>>)[1].path) = 1

\* the step-by-step replace returns what replace returns
ReplaceStepsAgree ==
    /\ op = "returned" => Ok(doc) = replace(prev, change)
    /\ op = "threw" => replace(prev, change).threw

\* the property node of the remove call the state records, and the end of
\* the span the call deletes
RemovedNode == findProperty(prev, path).propertyNode
DeleteEnd == RemoveRange(prev, RemovedNode).deleteEnd

\* the property does not share its line with an opening brace
MultiLineContext(json, off) ==
    \A k \in 0..(off - 1) :
        Ch(json, k) = "{" => \E n \in (k + 1)..(off - 1) : Ch(json, n) = "\n"

CommaAt(json, e) == IF Ch(json, e) = "," THEN 1 ELSE 0

\* the length of the run of spaces and tabs at e
BlanksAt(json, e) ==
    CHOOSE b \in 0..Len(json) :
        /\ \A k \in e..(e + b - 1) : Ch(json, k) \in {" ", "\t"}
        /\ Ch(json, e + b) \notin {" ", "\t"}

\* the length of the line terminator at e; loneCr says whether a carriage
\* return without a line feed counts as one
TerminatorAt(json, e, loneCr) ==
    IF Ch(json, e) = "\n" THEN 1
    ELSE IF Ch(json, e) = "\r" /\ Ch(json, e + 1) = "\n" THEN 2
    ELSE IF loneCr /\ Ch(json, e) = "\r" THEN 1
    ELSE 0

\* the end of the span: one comma, the blanks, and in multi-line context one
\* line terminator
SpanEnd(json, node, loneCr) ==
    LET c == node.offset + node.length + CommaAt(json, node.offset + node.length)
        b == c + BlanksAt(json, c)
    IN  IF MultiLineContext(json, node.offset) THEN b + TerminatorAt(json, b, loneCr)
        ELSE b

\* C24 as stated: deleteEnd is the property node's end offset, advanced past
\* one comma that follows immediately, then past all contiguous spaces and
\* tabs, then, only in multi-line context, past exactly one line terminator
\* that is \n or \r\n; it consumes no other character and never exceeds the
\* text length.
DeleteEndAsStated ==
    (op = "remove" /\ findProperty(prev, path).found)
        => /\ DeleteEnd = SpanEnd(prev, RemovedNode, FALSE)
           /\ DeleteEnd <= Len(prev)

\* C24 as amended: the same, with the line terminator being \n, \r\n or a
\* carriage return that no line feed follows.
DeleteEndTakesLoneCr ==
    (op = "remove" /\ findProperty(prev, path).found)
        => /\ DeleteEnd = SpanEnd(prev, RemovedNode, TRUE)
           /\ DeleteEnd <= Len(prev)

\* remove deleted a span that ends behind a comma, a blank and a line
\* terminator
CommaBlankTerminatorDeleted ==
    /\ op = "remove"
    /\ findProperty(prev, path).found
    /\ DeleteEnd >= 3
    /\ Ch(prev, DeleteEnd - 1) \in {"\n", "\r"}
    /\ \E k \in 0..(DeleteEnd - 2) :
          /\ Ch(prev, k) = ","
          /\ k = RemovedNode.offset + RemovedNode.length
          /\ k + 1 < DeleteEnd - 1

\* the tokens of a text from offset i on, comments and white space skipped
RECURSIVE TokensFrom(_, _)
TokensFrom(t, i) ==
    LET tk == Tok(t, i) IN
    IF tk.k = "eof" \/ tk.e <= tk.s THEN <<>> ELSE <<tk>> \o TokensFrom(t, tk.e)

\* a comma stands directly before a closing brace, white space and comments
\* aside
DanglingComma(json) ==
    \E n \in 1..(Len(TokensFrom(json, 0)) - 1) :
        TokensFrom(json, 0)[n].k = "," /\ TokensFrom(json, 0)[n + 1].k = "}"

\* the offsets of the commas that separate properties or elements
SeparatorCommas(json) ==
    { TokensFrom(json, 0)[n].s : n \in { m \in 1..Len(TokensFrom(json, 0)) :
                                           TokensFrom(json, 0)[m].k = "," } }

\* behind the property, its own comma and white space aside, the closing
\* brace follows
BraceFollows(json, node) ==
    startsWith(trimStart(SliceFrom(json, node.offset + node.length
                                         + CommaAt(json, node.offset + node.length))),
               <<"}">>)

\* the text in front of the span remove deletes, and whether remove goes on
\* to drop a comma from it
BeforeDelete == Slice(prev, 0, RemoveRange(prev, RemovedNode).deleteStart)
CommaFixApplies ==
    /\ endsWith(trimEnd(BeforeDelete), <<",">>)
    /\ startsWith(trimStart(SliceFrom(prev, DeleteEnd)), <<"}">>)

\* C25: no dangling comma after removing the last property.  Whenever remove
\* deletes a property after which, white space aside, the closing brace
\* follows, the output has no comma directly before a closing brace, white
\* space and comments aside, and the comma fix removes exactly one character,
\* which is a separator comma and not a character of a comment or string.
NoDanglingComma ==
    (op = "remove" /\ findProperty(prev, path).found /\ IsKey(path[Len(path)])
       /\ BraceFollows(prev, RemovedNode))
        => /\ ~DanglingComma(doc)
           /\ CommaFixApplies
                 => /\ lastIndexOf(BeforeDelete, ",") \in SeparatorCommas(prev)
                    /\ Len(doc) = Len(BeforeDelete) + (Len(prev) - DeleteEnd) - 1

\* C29: comment edits are comment-only.  For every valid document x, every
\* path p and every comment text, setComment(x, p, text) and
\* removeComment(x, p) leave the parsed value unchanged: every path reads as
\* before, also when the line above the property ends with */ coming from a
\* trailing block comment of the previous property, from a line comment, or
\* from a block comment on the opening-brace line.
CommentEditsKeepValue ==
    (op \in {"setComment", "removeComment"} /\ ValidJsonc(prev))
        => \A q \in ProbePaths(prev) :
              /\ has(doc, q) = has(prev, q)
              /\ get(doc, q) = get(prev, q)

\* the two backward scanners agree at an offset of a text
ScannersAgreeAt(json, off) ==
    /\ findAssociatedCommentStart(json, off) # -1
          <=> /\ findCommentAbove(json, off).found
              /\ ~startsWith(findCommentAbove(json, off).content, Star2)
    /\ findAssociatedCommentStart(json, off) # -1
          => /\ findAssociatedCommentStart(json, off)
                    <= findCommentAbove(json, off).start
             /\ findAssociatedCommentStart(json, off) = 0
                    \/ Ch(json, findAssociatedCommentStart(json, off) - 1) = "\n"
             /\ \A k \in findAssociatedCommentStart(json, off)
                            ..(findCommentAbove(json, off).start - 1) :
                    Ch(json, k) # "\n"

\* C30: the two backward comment scanners agree.  For every text and offset,
\* findAssociatedCommentStart returns a position if and only if
\* findCommentAbove returns a comment whose content does not start with **,
\* and that position is the start of the line on which that comment begins.
ScannersAgree ==
    /\ \A off \in 0..Len(prev) : ScannersAgreeAt(prev, off)
    /\ \A off \in 0..Len(doc) : ScannersAgreeAt(doc, off)

\* remove met a property with a detached comment above: the one scanner
\* reports the comment, the other returns null
ScannersMetDetachedComment ==
    /\ op = "remove"
    /\ findProperty(prev, path).found
    /\ findCommentAbove(prev, RemovedNode.offset).found
    /\ startsWith(findCommentAbove(prev, RemovedNode.offset).content, Star2)
    /\ findAssociatedCommentStart(prev, RemovedNode.offset) = -1

\* the lines of an edit script that carry one of the marks, without the mark
MarkedLines(out, marks) ==
    [i \in 1..Len(SelectSeq(out, LAMBDA l : Len(l) >= 2 /\ l[1] \in marks /\ l[2] = " ")) |->
        SubSeq(SelectSeq(out, LAMBDA l : Len(l) >= 2 /\ l[1] \in marks /\ l[2] = " ")[i],
               3, Len(SelectSeq(out, LAMBDA l : Len(l) >= 2 /\ l[1] \in marks /\ l[2] = " ")[i]))]

\* the returned text read as lines again, one per pushed line
ScriptLines(out) ==
    [i \in 1..Len(split(out)) |-> split(out)[i]]

\* C27: diff emits a valid line edit script for every pair of strings.  The
\* loop terminates: every round advances an index, and no index passes the
\* end of its list.  In the returned script the context and - lines, in
\* output order, are exactly the lines of the old string, the context and +
\* lines are exactly the lines of the new string, every line carries one of
\* the three marks, and for identical strings every line is a context line.
DiffIsEditScript ==
    [][ /\ (op = "diff" /\ op' = "diff")
            => /\ local'.oldIdx + local'.newIdx > local.oldIdx + local.newIdx
               /\ local'.oldIdx <= Len(local.oldLines)
               /\ local'.newIdx <= Len(local.newLines)
        /\ op' = "returned"
            => /\ \A ls \in LineLists :
                     RenderLines(ls, 1) = prev
                         => MarkedLines(local.result, {" ", "-"}) = ls
               /\ \A ls \in LineLists :
                     RenderLines(ls, 1) = doc
                         => MarkedLines(local.result, {" ", "+"}) = ls
               /\ \A i \in 1..Len(local.result) : local.result[i][1] \in {" ", "-", "+"}
               /\ prev = doc => \A i \in 1..Len(local.result) : local.result[i][1] = " "
               /\ ScriptLines(text') = local.result
      ]_vars

\* diff returned a script with a context line, a removed and an added line
MixedScriptReturned ==
    /\ op = "returned"
    /\ \E i, j, k \in 1..Len(local.result) :
          /\ local.result[i][1] = " "
          /\ local.result[j][1] = "-"
          /\ local.result[k][1] = "+"
    /\ Len(local.oldLines) # Len(local.newLines)

\* ---------------------------------------------------------------------------
\* The dry run
\* ---------------------------------------------------------------------------

\* the words of the command line that are no flags: the command, the file,
\* the arguments
CliWords == SelectSeq(text, LAMBDA w : w = StdinFile \/ ~startsWith(w, <<"-">>))

DryRunGiven == \E i \in 1..Len(text) : text[i] \in DryRunFlags

HelpGiven == \E i \in 1..Len(text) : text[i] \in HelpFlags \cup VersionFlags

NamedFile == CliWords[2]

\* the text the mutation of the command line makes of the file's content
MutationResult ==
    CASE CliWords[1] = <<"s", "e", "t">> ->
           set(prev, parsePath(CliWords[3]).path, JSONparse(CliWords[4]).value).text
      [] CliWords[1] = <<"r", "e", "m", "o", "v", "e">> -> remove(prev, parsePath(CliWords[3]).path)
      [] CliWords[1] = <<"m", "o", "d", "i", "f", "y">> -> modify(prev, JSONparse(CliWords[3]).value).text
      [] CliWords[1] = <<"m", "e", "r", "g", "e">> -> merge(prev, JSONparse(CliWords[3]).value).text
      [] CliWords[1] = <<"r", "e", "n", "a", "m", "e">> -> rename(prev, parsePath(CliWords[3]).path, CliWords[4]).text
      [] CliWords[1] = <<"m", "o", "v", "e">> ->
           move(prev, parsePath(CliWords[3]).path, parsePath(CliWords[4]).path).text
      [] CliWords[1] = <<"s", "o", "r", "t">> ->
           sort(prev, IF Len(CliWords) >= 3 THEN parsePath(CliWords[3]).path ELSE <<>>,
                "lexicographic", \A i \in 1..Len(text) : text[i] # NoDeepFlag)
      [] CliWords[1] = <<"c", "o", "m", "m", "e", "n", "t">> -> setComment(prev, parsePath(CliWords[3]).path, CliWords[4])
      [] CliWords[1] = <<"u", "n", "c", "o", "m", "m", "e", "n", "t">> -> removeComment(prev, parsePath(CliWords[3]).path)
      [] OTHER -> prev

\* the run was a mutating command that did not fail
MutationDone ==
    /\ op = "run"
    /\ ~threw
    /\ ~HelpGiven
    /\ Len(CliWords) >= 2
    /\ \/ CliWords[1] \in
            { <<"s", "e", "t">>,
              <<"r", "e", "m", "o", "v", "e">>,
              <<"m", "o", "d", "i", "f", "y">>,
              <<"m", "e", "r", "g", "e">>,
              <<"r", "e", "n", "a", "m", "e">>,
              <<"m", "o", "v", "e">>,
              <<"s", "o", "r", "t">>,
              <<"u", "n", "c", "o", "m", "m", "e", "n", "t">> }
       \/ CliWords[1] = <<"c", "o", "m", "m", "e", "n", "t">> /\ Len(CliWords) >= 4

RECURSIVE KeysInOrder(_, _, _)
KeysInOrder(node, comparator, deep) ==
    /\ node.type = "object" =>
          \A i \in 1..(Len(node.kids) - 1) :
              compare(comparator, node.kids[i].kids[1].value,
                      node.kids[i + 1].kids[1].value) <= 0
    /\ deep =>
          \A i \in 1..Len(node.kids) :
              Nested(ChildValue(node, i)) => KeysInOrder(ChildValue(node, i), comparator, deep)

SortedNode(json) == findNodeAtLocation(parseTree(json), path)

AlreadyInOrder(json) ==
    /\ SortedNode(json).found
    /\ SortedNode(json).node.type = "object"
    /\ KeysInOrder(SortedNode(json).node, local.comparator, local.deep)

SortSorts ==
    op = "sort" =>
        /\ ValidJsonc(doc)
        /\ DeepEq(getNodeValue(parseTree(doc)), getNodeValue(parseTree(prev)))
        /\ (SortedNode(prev).found /\ SortedNode(prev).node.type = "object") => AlreadyInOrder(doc)

====
